---- MODULE Spec2Model ----
(***************************************************************************)
(* The cache protocol of mise-s3-cache: CacheManager (src/src/cache.rs)    *)
(* working against the remote object store through S3Client               *)
(* (src/src/s3_operations.rs), the local file system and the statistics    *)
(* file.                                                                   *)
(*                                                                         *)
(* One invocation of check_cache / restore_from_cache / store_in_cache is  *)
(* run by a process; it advances one suspension point (one remote call,    *)
(* with the local work around it) per step.  Every remote call and every   *)
(* `?` of the code is a branch: the answer of the store, a transport       *)
(* failure and a local I/O failure are chosen nondeterministically.        *)
(*                                                                         *)
(* Strings that the code inspects character by character (tool names,      *)
(* versions, keys) are sequences of one-character strings.                 *)
(***************************************************************************)
EXTENDS Integers, Sequences, FiniteSets, TLC

\* ------------------------------------------------------------------ bounds
\* invocations a process may start
MaxOps == 3
\* largest elapsed time, in ms, a successful restore can measure
MaxDurationMs == 1
\* invocations each of two concurrent processes may start
MaxRaceOps == 2

\* ------------------------------------------------------- program constants
MaxToolNameLen == 100
MaxVersionLen == 50
\* utils::is_valid_s3_bucket_name, `name.len() < 3 || name.len() > 63`
MinBucketNameLen == 3
MaxBucketNameLen == 63

\* --------------------------------------------------------------- characters
Lower == {"a","b","c","d","e","f","g","h","i","j","k","l","m",
          "n","o","p","q","r","s","t","u","v","w","x","y","z"}
Upper == {"A","B","C","D","E","F","G","H","I","J","K","L","M",
          "N","O","P","Q","R","S","T","U","V","W","X","Y","Z"}
Digit == {"0","1","2","3","4","5","6","7","8","9"}

\* ^[a-zA-Z0-9._-]+$
ToolNameChars == Lower \cup Upper \cup Digit \cup {".", "_", "-"}
\* ^[a-zA-Z0-9.+-]+$
VersionChars == Lower \cup Upper \cup Digit \cup {".", "+", "-"}

\* a mutant: the length test is off by one
is_valid_tool_name_off_by_one(name) ==
    /\ ~(Len(name) = 0 \/ Len(name) > MaxToolNameLen + 1)
    /\ \A i \in 1..Len(name) : name[i] \in ToolNameChars

is_valid_tool_name(name) ==
    /\ ~(Len(name) = 0 \/ Len(name) > MaxToolNameLen)
    /\ \A i \in 1..Len(name) : name[i] \in ToolNameChars

is_valid_version(v) ==
    /\ ~(Len(v) = 0 \/ Len(v) > MaxVersionLen)
    /\ \A i \in 1..Len(v) : v[i] \in VersionChars

\* a mutant: validation that accepts everything
validate_accepts_all(t, v) == TRUE

\* CacheManager::validate_tool_version: TRUE for Ok(()), FALSE for Err
validate_tool_version(t, v) == is_valid_tool_name(t) /\ is_valid_version(v)

\* ------------------------------------------------------------------- inputs
Node == <<"n","o","d","e">>
Go == <<"g","o">>
SlashTool == <<"a","/","b">>
LongTool == [i \in 1..(MaxToolNameLen + 1) |-> "a"]
ToolInputs == {Node, Go, SlashTool, LongTool}

V1 == <<"1",".","0">>
AtVersion == <<"1","@">>
VersionInputs == {V1, <<>>, AtVersion}

\* the (tool, version) arguments the operations are invoked with: two valid
\* pairs, and pairs with one invalid argument
Requests ==
    {<<Node, V1>>, <<Go, V1>>, <<SlashTool, V1>>, <<LongTool, V1>>,
     <<Node, <<>>>>, <<Node, AtVersion>>}

\* the (tool, version) pairs the project's manifest declares
Manifest == {<<Node, V1>>}

\* the processes that invoke the cache manager
Procs == {"p1", "p2"}

\* ---------------------------------------------------------------- the keys
\* Config::default
Prefix == <<"m","i","s","e","-","c","a","c","h","e">>
\* utils::get_platform / get_architecture of the build
get_platform == <<"l","i","n","u","x">>
get_architecture == <<"x","8","6","_","6","4">>
Slash == <<"/">>

\* a mutant: the architecture is left out of the key
format_without_arch(prefix, t, v, platform, arch) ==
    prefix \o Slash \o <<"t","o","o","l","s">> \o Slash \o t \o Slash \o v
           \o Slash \o platform

\* format!("{}/tools/{}/{}/{}-{}", prefix, tool, version, platform, arch)
format_cache_key(prefix, t, v, platform, arch) ==
    prefix \o Slash \o <<"t","o","o","l","s">> \o Slash \o t \o Slash \o v
           \o Slash \o platform \o <<"-">> \o arch

\* Config::get_cache_key in the build at hand
get_cache_key(t, v) == format_cache_key(Prefix, t, v, get_platform, get_architecture)

archive_key(t, v) ==
    get_cache_key(t, v)
        \o <<"/","a","r","c","h","i","v","e",".","t","a","r",".","g","z">>
metadata_key(t, v) ==
    get_cache_key(t, v)
        \o <<"/","m","e","t","a","d","a","t","a",".","j","s","o","n">>
checksum_key(t, v) ==
    get_cache_key(t, v)
        \o <<"/","c","h","e","c","k","s","u","m",".","s","h","a","2","5","6">>

\* format!("{tool}@{version}")
tool_key(t, v) == t \o <<"@">> \o v

\* ------------------------------------------------- trees, archives, digests
\* A directory tree is a function from the files it holds to their content.
Files == {"bin"}
FileOrder == <<"bin">>
EmptyTree == [f \in {} |-> "v1"]
TreeA == [f \in Files |-> "v1"]
TreeB == [f \in Files |-> "v2"]

\* An archive is the stream of its entries and the state of its gzip trailer.
EmptyArchive == [entries |-> <<>>, trailer |-> "ok"]
IsEntryOf(tree, f) == f \in DOMAIN tree

\* a mutant: the archive is written without the files
pack_drops_files(tree) == EmptyArchive

\* create_archive: append_dir_all walks the tree, one entry per file
Pack(tree) ==
    LET keep(f) == IsEntryOf(tree, f)
        names == SelectSeq(FileOrder, keep)
    IN [entries |-> [i \in 1..Len(names) |-> <<names[i], tree[names[i]]>>],
        trailer |-> "ok"]

\* a mutant: the target directory is emptied before the entries are written
unpack_into_emptied_target(entries, n, tree) ==
    LET written == {entries[i][1] : i \in 1..n}
        last(f) == CHOOSE i \in 1..n :
                      /\ entries[i][1] = f
                      /\ \A j \in 1..n : entries[j][1] = f => j <= i
    IN [f \in written |-> entries[last(f)][2]]

\* Archive::unpack of the first n entries into the tree at the target
Unpack(entries, n, tree) ==
    LET written == {entries[i][1] : i \in 1..n}
        last(f) == CHOOSE i \in 1..n :
                      /\ entries[i][1] = f
                      /\ \A j \in 1..n : entries[j][1] = f => j <= i
    IN [f \in DOMAIN tree \cup written |->
           IF f \in written THEN entries[last(f)][2] ELSE tree[f]]

\* utils::calculate_file_hash: SHA-256 in hex, modelled as collision free
calculate_file_hash(bytes) == [sha256 |-> bytes]

\* What an attacker, or bit rot, can turn stored archive bytes into: an
\* archive with one content replaced, or a stream cut after some entries.
Corruptions(bytes) ==
    {[entries |-> [bytes.entries EXCEPT ![i] = <<bytes.entries[i][1], "evil">>],
      trailer |-> "ok"] : i \in 1..Len(bytes.entries)}
    \cup {[entries |-> SubSeq(bytes.entries, 1, n), trailer |-> "damaged"] :
             n \in 0..Len(bytes.entries)}

IsPristine(bytes) ==
    /\ bytes.trailer = "ok"
    /\ \A i \in 1..Len(bytes.entries) : bytes.entries[i][2] # "evil"

\* The body of a text object: the hex digits and whether white space follows;
\* utf8 is FALSE for a body that is not valid UTF-8.
Text(hex) == [utf8 |-> TRUE, hex |-> hex, ws |-> FALSE]
NoText == Text(calculate_file_hash(EmptyArchive))
\* str::trim
Trim(text) == [text EXCEPT !.ws = FALSE]

\* -------------------------------------------------------------- statistics
\* CacheStats::default
DefaultStats ==
    [cache_hits |-> 0, cache_misses |-> 0, total_downloads |-> 0,
     total_savings_bytes |-> 0, tools |-> [k \in {} |-> 0]]

NewToolStats ==
    [cache_hits |-> 0, cache_misses |-> 0, total_download_time_ms |-> 0,
     average_download_time_ms |-> 0, size_bytes |-> 0]

\* a mutant: the file is never read back
load_stats_starts_over(file) == DefaultStats

\* CacheManager::load_stats on the content of the statistics file: a missing
\* file and a file that does not parse both give the default aggregate
load_stats(file) == IF file.state = "ok" THEN file.data ELSE DefaultStats

\* a mutant: the global miss counter is not kept
update_stats_forgets_global_miss(stats, t, v, cache_hit, download_time_ms) ==
    LET k == tool_key(t, v)
        old == IF k \in DOMAIN stats.tools THEN stats.tools[k] ELSE NewToolStats
        new == IF cache_hit
               THEN [old EXCEPT !.cache_hits = @ + 1]
               ELSE [old EXCEPT !.cache_misses = @ + 1]
    IN [stats EXCEPT
          !.cache_hits = IF cache_hit THEN @ + 1 ELSE @,
          !.total_downloads = @ + 1,
          !.tools = [kk \in DOMAIN stats.tools \cup {k} |->
                        IF kk = k THEN new ELSE stats.tools[kk]]]

\* a mutant: the average is the time of the last download
update_stats_averages_the_last(stats, t, v, cache_hit, download_time_ms) ==
    LET k == tool_key(t, v)
        old == IF k \in DOMAIN stats.tools THEN stats.tools[k] ELSE NewToolStats
        new == IF cache_hit
               THEN [old EXCEPT
                       !.cache_hits = @ + 1,
                       !.total_download_time_ms = @ + download_time_ms,
                       !.average_download_time_ms = download_time_ms]
               ELSE [old EXCEPT !.cache_misses = @ + 1]
    IN [stats EXCEPT
          !.cache_hits = IF cache_hit THEN @ + 1 ELSE @,
          !.cache_misses = IF cache_hit THEN @ ELSE @ + 1,
          !.total_downloads = @ + 1,
          !.tools = [kk \in DOMAIN stats.tools \cup {k} |->
                        IF kk = k THEN new ELSE stats.tools[kk]]]

\* a mutant: a lookup is counted twice
update_stats_counts_twice(stats, t, v, cache_hit, download_time_ms) ==
    LET k == tool_key(t, v)
        old == IF k \in DOMAIN stats.tools THEN stats.tools[k] ELSE NewToolStats
        new == IF cache_hit
               THEN [old EXCEPT
                       !.cache_hits = @ + 1,
                       !.total_download_time_ms = @ + download_time_ms,
                       !.average_download_time_ms =
                           (old.total_download_time_ms + download_time_ms)
                               \div (old.cache_hits + 1)]
               ELSE [old EXCEPT !.cache_misses = @ + 1]
    IN [stats EXCEPT
          !.cache_hits = IF cache_hit THEN @ + 1 ELSE @,
          !.cache_misses = IF cache_hit THEN @ ELSE @ + 1,
          !.total_downloads = @ + 2,
          !.tools = [kk \in DOMAIN stats.tools \cup {k} |->
                        IF kk = k THEN new ELSE stats.tools[kk]]]

\* a mutant: the number of lookups is not kept
update_stats_skips_total(stats, t, v, cache_hit, download_time_ms) ==
    LET k == tool_key(t, v)
        old == IF k \in DOMAIN stats.tools THEN stats.tools[k] ELSE NewToolStats
        new == IF cache_hit
               THEN [old EXCEPT
                       !.cache_hits = @ + 1,
                       !.total_download_time_ms = @ + download_time_ms,
                       !.average_download_time_ms =
                           (old.total_download_time_ms + download_time_ms)
                               \div (old.cache_hits + 1)]
               ELSE [old EXCEPT !.cache_misses = @ + 1]
    IN [stats EXCEPT
          !.cache_hits = IF cache_hit THEN @ + 1 ELSE @,
          !.cache_misses = IF cache_hit THEN @ ELSE @ + 1,
          !.tools = [kk \in DOMAIN stats.tools \cup {k} |->
                        IF kk = k THEN new ELSE stats.tools[kk]]]

\* CacheManager::update_stats between load_stats and save_stats (last_used, a
\* wall-clock reading, is not represented)
update_stats(stats, t, v, cache_hit, download_time_ms) ==
    LET k == tool_key(t, v)
        old == IF k \in DOMAIN stats.tools THEN stats.tools[k] ELSE NewToolStats
        new == IF cache_hit
               THEN [old EXCEPT
                       !.cache_hits = @ + 1,
                       !.total_download_time_ms = @ + download_time_ms,
                       !.average_download_time_ms =
                           (old.total_download_time_ms + download_time_ms)
                               \div (old.cache_hits + 1)]
               ELSE [old EXCEPT !.cache_misses = @ + 1]
    IN [stats EXCEPT
          !.cache_hits = IF cache_hit THEN @ + 1 ELSE @,
          !.cache_misses = IF cache_hit THEN @ ELSE @ + 1,
          !.total_downloads = @ + 1,
          !.tools = [kk \in DOMAIN stats.tools \cup {k} |->
                        IF kk = k THEN new ELSE stats.tools[kk]]]

\* ------------------------------------------------------------------- state
VARIABLES
    s3,          \* the remote store: object key -> body, for the objects that exist
    stats_file,  \* the statistics file: [state, data]
    fs,          \* the local install paths: path -> [exists, tree]
    inv,         \* per process: the invocation it is running (arguments, position,
                 \* locals, what it has done so far)
    budget,      \* per process: invocations it may still start
    faults,      \* whether remote calls and local I/O can fail in this run
    last_modified,  \* the remote store: object key -> time of its last write
    cleanup,     \* the run of cleanup_old_cache: arguments, position, locals
    warm,        \* the run of warm_project_cache: position, locals, what was logged
    proc,        \* the process started from the command line: command, position,
                 \* exit status
    config,      \* the Config the process holds
    list,     \* the run of S3Client::list_objects: the pages the store holds
                 \* for it, position, locals
    retry        \* the run of retry_with_backoff: arguments, how the operation
                 \* will end each time it is called, position, locals

vars == <<s3, stats_file, fs, inv, budget, faults, last_modified, cleanup, warm, proc, config,
          list, retry>>

\* how a call that can fail may end: Ok (TRUE) or Err (FALSE)
Outcome == IF faults THEN BOOLEAN ELSE {TRUE}

Ops == {"check", "restore", "store"}
Paths == {"/opt/node", "/new"}
NoPath == "-"
Objects == {"archive", "metadata", "checksum"}

NoStaged == [archive |-> EmptyArchive, checksum |-> NoText,
             metadata |-> [tool |-> <<>>, version |-> <<>>,
                           platform |-> get_platform, arch |-> get_architecture,
                           size_bytes |-> 0,
                           checksum |-> calculate_file_hash(EmptyArchive),
                           compressed |-> TRUE]]

Idle ==
    [op |-> "idle", tool |-> <<>>, version |-> <<>>, install_path |-> NoPath,
     pc |-> "idle", result |-> "none", err |-> "none",
     head |-> "none",                 \* the answer to the existence query
     downloaded |-> FALSE,            \* download_file returned Ok
     temp_archive |-> EmptyArchive,   \* the bytes of the scratch archive
     cks |-> "none",                  \* how download_string ended
     expected_checksum |-> NoText,    \* the text it returned
     hit |-> FALSE, ms |-> 0, status |-> "none", ret |-> "none",
     stats |-> DefaultStats,          \* the aggregate between load and save
     staged |-> NoStaged,             \* the three bodies store_in_cache built
     pending |-> {},                  \* the uploads still in flight
     uploaded |-> {}, failed |-> {},  \* the uploads that returned Ok, Err
     calls |-> <<>>,                  \* the remote calls issued, in order
     fx |-> {},                       \* the local effects on the install path
     pre_s3 |-> [k \in {} |-> 0], pre_stats |-> [state |-> "absent", data |-> DefaultStats],
     pre_fs |-> [p \in {} |-> 0]]

\* SystemTime::now() as seconds since the epoch: 2026-09-21, day 20717
SecondsPerDay == 86400
Today == 20717
Now == Today * SecondsPerDay

\* the run of cleanup_old_cache before it is started
NoCleanup ==
    [pc |-> "idle", days_old |-> 0, cutoff_time |-> 0,
     continuation_token |-> <<>>, contents |-> <<>>, is_truncated |-> FALSE,
     deleted_keys |-> <<>>, failed_keys |-> <<>>, result |-> "none",
     pre_s3 |-> [k \in {} |-> 0], pre_last_modified |-> [k \in {} |-> 0]]

\* the store stamps every object it writes with the time of the write
\* warm_project_cache not started
NoWarm ==
    [pc |-> "idle", tools |-> <<>>, i |-> 0, missing_tools |-> <<>>,
     attempted |-> <<>>, warned |-> <<>>, result |-> "none",
     pre_s3 |-> [k \in {} |-> 0]]

\* no process started
NoProc ==
    [pc |-> "idle", command |-> "none", hook_mode |-> FALSE, exited |-> FALSE,
     exit_code |-> 0, miss |-> FALSE, failure |-> "none",
     config_path |-> "None", env |-> [name \in {} |-> ""], warned |-> {},
     \* handle_restore_all: its flag and locals, what each restore_from_cache
     \* returned, what was printed
     selective |-> FALSE, tools |-> <<>>, i |-> 0, restored_count |-> 0,
     returned |-> <<>>, printed |-> <<>>, printed_count |-> -1, result |-> "none"]

\* Config::default
DefaultTtlSeconds == 604800
DefaultParallelUploads == 3
DefaultConfig ==
    [enabled |-> TRUE, bucket |-> "", region |-> "us-east-1", prefix |-> "mise-cache",
     ttl_seconds |-> DefaultTtlSeconds, parallel_uploads |-> DefaultParallelUploads,
     compression |-> "gzip", debug |-> FALSE, log_file |-> "None"]

\* list_objects before it is called
NoListing ==
    [pc |-> "idle", pages |-> <<>>, requests |-> 0, keys |-> <<>>,
     continuation_token |-> 0, result |-> "none"]

\* retry_with_backoff before it is called
NoRetry ==
    [pc |-> "idle", max_attempts |-> 0, initial_delay_ms |-> [m |-> 0, e |-> 0],
     outcomes |-> <<>>, attempt |-> 0, delay |-> [m |-> 0, e |-> 0], calls |-> 0,
     slept |-> <<>>, result |-> <<"none", 0>>]

Stamp(times, store, written) ==
    [k \in DOMAIN store |-> IF k \in written THEN Now ELSE times[k]]

Exists(store, key) == key \in DOMAIN store
Put(store, key, body) ==
    [k \in DOMAIN store \cup {key} |-> IF k = key THEN body ELSE store[k]]

Finish(r, res, e) == [r EXCEPT !.pc = "done", !.result = res, !.err = e]
Record(r, cache_hit, t, status, ret) ==
    [r EXCEPT !.pc = "stats_load", !.hit = cache_hit, !.ms = t,
              !.status = status, !.ret = ret]
Called(r, verb, key) == [r EXCEPT !.calls = Append(@, <<verb, key>>)]

TypeOK ==
    /\ \A p \in Procs : inv[p].op \in Ops \cup {"idle"}
    /\ \A p \in Procs : budget[p] \in 0..MaxOps
    /\ stats_file.state \in {"absent", "corrupt", "ok"}
    /\ faults \in BOOLEAN
    /\ DOMAIN last_modified = DOMAIN s3

Init ==
    /\ s3 = [k \in {} |-> 0]
    /\ stats_file = [state |-> "absent", data |-> DefaultStats]
    /\ fs = [p \in Paths |->
               IF p = "/opt/node" THEN [exists |-> TRUE, tree |-> TreeA]
                                  ELSE [exists |-> FALSE, tree |-> EmptyTree]]
    /\ inv = [p \in Procs |-> Idle]
    /\ budget = [p \in Procs |-> IF p = "p1" THEN MaxOps ELSE 0]
    /\ faults = TRUE
    /\ list = NoListing
    /\ retry = NoRetry
    /\ last_modified = [k \in {} |-> 0]
    /\ cleanup = NoCleanup
    /\ warm = NoWarm
    /\ proc = NoProc
    /\ config = DefaultConfig

\* ---------------------------------------------------------- an invocation
FirstPc(o) == IF o = "store" THEN "prepare" ELSE "head"

\* The entry of check_cache, restore_from_cache and store_in_cache: the
\* arguments are taken and validate_tool_version is the first thing run.
Invoke(p, ops, reqs) ==
    /\ budget[p] > 0
    /\ inv[p].pc \in {"idle", "done"}
    /\ \E o \in ops, req \in reqs, path \in Paths :
          /\ o = "check" => path = "/new"
          /\ LET t == req[1]
                 v == req[2]
                 r == [Idle EXCEPT !.op = o, !.tool = t, !.version = v,
                                   !.install_path = IF o = "check" THEN NoPath ELSE path,
                                   !.pre_s3 = s3, !.pre_stats = stats_file,
                                   !.pre_fs = fs]
             IN inv' = [inv EXCEPT ![p] =
                          IF validate_tool_version(t, v)
                          THEN [r EXCEPT !.pc = FirstPc(o)]
                          ELSE Finish(r, "Err", "validate")]
    /\ budget' = [budget EXCEPT ![p] = @ - 1]
    /\ UNCHANGED <<s3, stats_file, fs, faults, last_modified, cleanup, warm, proc, config,
                   list, retry>>

\* a process invokes any of the three operations with any of the arguments
Begin(p) == Invoke(p, Ops, Requests)

\* ------------------------------------------------------ the existence query
\* What HeadObject can answer for a key: the truth, a service error other
\* than NotFound (access denied), or no answer at all.
HeadAnswers(key) ==
    {IF Exists(s3, key) THEN "200" ELSE "404"}
        \cup (IF faults THEN {"403", "timeout"} ELSE {})

\* a mutant: every failure of the query is taken for absence
object_exists_swallows_errors(answer) ==
    IF answer = "200" THEN "Ok(true)" ELSE "Ok(false)"

\* a mutant: an object that is not found is taken to exist
object_exists_assumes_present(answer) ==
    IF answer \in {"200", "404"} THEN "Ok(true)" ELSE "Err"

\* S3Client::object_exists
object_exists(answer) ==
    CASE answer = "200" -> "Ok(true)"
      [] answer = "404" -> "Ok(false)"
      [] OTHER -> "Err"

\* check_cache after validation
CheckHead(p) ==
    LET r == inv[p]
        key == metadata_key(r.tool, r.version)
    IN /\ r.op = "check" /\ r.pc = "head"
       /\ \E answer \in HeadAnswers(key) :
             LET c == [Called(r, "HEAD", key) EXCEPT !.head = answer]
                 res == object_exists(answer)
             IN inv' = [inv EXCEPT ![p] =
                          Finish(c, res, IF res = "Err" THEN "transport" ELSE "none")]
       /\ UNCHANGED <<s3, stats_file, fs, budget, faults, last_modified, cleanup, warm, proc, config,
                      list, retry>>

\* ------------------------------------------------------- restore_from_cache
\* What GetObject can answer for a key: the body, NoSuchKey, or a transport
\* failure (before or while the body is read).
GetAnswers(key) ==
    {IF Exists(s3, key) THEN "200" ELSE "404"}
        \cup (IF faults THEN {"timeout"} ELSE {})

\* a mutant: a plain miss is raised as an error
not_found_is_raised(r) == Finish(r, "Err", "transport")

\* restore_from_cache when the metadata object is not there
on_not_found(r) == Record(r, FALSE, 0, "not_found", "Ok(false)")

\* restore_from_cache, "Check if cache entry exists", and the scratch
\* directory made right after it
RestoreHead(p) ==
    LET r == inv[p]
        key == metadata_key(r.tool, r.version)
    IN /\ r.op = "restore" /\ r.pc = "head"
       /\ \E answer \in HeadAnswers(key), tempdir_ok \in Outcome :
             LET c == [Called(r, "HEAD", key) EXCEPT !.head = answer]
                 res == object_exists(answer)
             IN inv' = [inv EXCEPT ![p] =
                          CASE res = "Err" -> Finish(c, "Err", "transport")
                            [] res = "Ok(false)" -> on_not_found(c)
                            [] OTHER ->
                                 IF tempdir_ok THEN [c EXCEPT !.pc = "download"]
                                 ELSE Finish(c, "Err", "local_io")]
       /\ UNCHANGED <<s3, stats_file, fs, budget, faults, last_modified, cleanup, warm, proc, config,
                      list, retry>>

\* S3Client::download_file: Ok only for a body that arrives and is written
download_file(answer, disk_ok) == answer = "200" /\ disk_ok

\* a mutant: a failed archive download is tried once more
download_failure_is_retried(r) ==
    IF Len(r.calls) < 3 THEN [r EXCEPT !.pc = "download"]
                        ELSE Record(r, FALSE, 0, "download_failed", "Ok(false)")

\* a mutant: a failed archive download is raised as an error
download_failure_is_raised(r) == Finish(r, "Err", "transport")

\* restore_from_cache when download_file returns Err
on_download_failed(r) == Record(r, FALSE, 0, "download_failed", "Ok(false)")

\* restore_from_cache, "Download archive"
RestoreDownload(p) ==
    LET r == inv[p]
        key == archive_key(r.tool, r.version)
    IN /\ r.op = "restore" /\ r.pc = "download"
       /\ \E answer \in GetAnswers(key), disk_ok \in Outcome :
             LET c == Called(r, "GET", key)
             IN inv' = [inv EXCEPT ![p] =
                          IF download_file(answer, disk_ok)
                          THEN [c EXCEPT !.downloaded = TRUE,
                                         !.temp_archive = s3[key],
                                         !.pc = "verify"]
                          ELSE on_download_failed(c)]
       /\ UNCHANGED <<s3, stats_file, fs, budget, faults, last_modified, cleanup, warm, proc, config,
                      list, retry>>

\* S3Client::download_string: how the fetch of a text object ends
download_string(answer, body) ==
    CASE answer = "404" -> "absent"
      [] answer = "200" -> IF body.utf8 THEN "ok" ELSE "not_text"
      [] OTHER -> "transport"

\* a mutant: an unreadable checksum is treated as a mismatch
verify_checksum_fails_closed(fetch, expected, actual) ==
    IF fetch = "ok" /\ Trim(expected) = actual THEN "proceed" ELSE "mismatch"

\* a mutant: the checksum is fetched but never compared
verify_checksum_never_compares(fetch, expected, actual) == "proceed"

\* restore_from_cache, "Verify checksum if available": the verdict on the
\* fetched checksum text and the digest of the scratch archive
verify_checksum(fetch, expected, actual) ==
    IF fetch = "ok" /\ Trim(expected) # actual THEN "mismatch" ELSE "proceed"

RestoreVerify(p) ==
    LET r == inv[p]
        key == checksum_key(r.tool, r.version)
    IN /\ r.op = "restore" /\ r.pc = "verify"
       /\ \E answer \in GetAnswers(key), hash_ok \in Outcome :
             LET body == IF answer = "200" THEN s3[key] ELSE NoText
                 fetch == download_string(answer, body)
                 c == [Called(r, "GET", key) EXCEPT !.cks = fetch,
                                                     !.expected_checksum = body]
                 actual == Text(calculate_file_hash(r.temp_archive))
             IN inv' = [inv EXCEPT ![p] =
                          CASE fetch = "ok" /\ ~hash_ok -> Finish(c, "Err", "local_io")
                            [] verify_checksum(fetch, body, actual) = "mismatch" ->
                                 Record(c, FALSE, 0, "checksum_mismatch", "Ok(false)")
                            [] OTHER -> [c EXCEPT !.pc = "extract"]]
       /\ UNCHANGED <<s3, stats_file, fs, budget, faults, last_modified, cleanup, warm, proc, config,
                      list, retry>>

\* a mutant: a failed extraction is raised
extract_failure_is_raised(r) == Finish(r, "Err", "local_io")

\* a mutant: a failed extraction is counted as a restore
extract_failure_is_hit(r) == Record(r, TRUE, 0, "success", "Ok(true)")

\* restore_from_cache when extract_archive returns Err
on_extract_failed(r) == Record(r, FALSE, 0, "extraction_failed", "Ok(false)")

\* restore_from_cache, "Extract archive to install path": create_dir_all,
\* extract_archive (which stops at the first entry it cannot write, or at the
\* damaged end of the stream) and the size query that follows a success
RestoreExtract(p) ==
    LET r == inv[p]
        bytes == r.temp_archive
        dir == fs[r.install_path]
    IN /\ r.op = "restore" /\ r.pc = "extract"
       /\ \E mkdir_ok \in Outcome, n \in 0..Len(bytes.entries),
             unpack_ok \in BOOLEAN, size_ok \in Outcome, d \in 0..MaxDurationMs :
             /\ unpack_ok => (n = Len(bytes.entries) /\ bytes.trailer = "ok")
             /\ ~faults => (n = Len(bytes.entries) /\ unpack_ok = (bytes.trailer = "ok"))
             /\ IF ~mkdir_ok
                THEN /\ inv' = [inv EXCEPT ![p] = Finish(r, "Err", "local_io")]
                     /\ fs' = fs
                ELSE /\ fs' = [fs EXCEPT ![r.install_path] =
                                  [exists |-> TRUE,
                                   tree |-> Unpack(bytes.entries, n, dir.tree)]]
                     /\ LET c == [r EXCEPT !.fx = @ \cup {"create_dir_all", "unpack"}
                                                    \cup (IF unpack_ok THEN {"unpacked"} ELSE {})]
                        IN inv' = [inv EXCEPT ![p] =
                                     CASE ~unpack_ok -> on_extract_failed(c)
                                       [] unpack_ok /\ ~size_ok -> Finish(c, "Err", "local_io")
                                       [] OTHER -> Record(c, TRUE, d, "success", "Ok(true)")]
       /\ UNCHANGED <<s3, stats_file, budget, faults, last_modified, cleanup, warm, proc, config,
                      list, retry>>

\* update_stats up to save_stats: the file is loaded and the aggregate changed
\* in memory
StatsLoad(p) ==
    LET r == inv[p]
    IN /\ r.pc = "stats_load"
       /\ \E io_ok \in Outcome :
             inv' = [inv EXCEPT ![p] =
                       IF io_ok
                       THEN [r EXCEPT !.pc = "stats_save",
                                      !.stats = update_stats(load_stats(stats_file),
                                                    r.tool, r.version, r.hit, r.ms)]
                       ELSE Finish(r, "Err", "stats_io")]
       /\ UNCHANGED <<s3, stats_file, fs, budget, faults, last_modified, cleanup, warm, proc, config,
                      list, retry>>

\* save_stats: the whole aggregate is written over the file; a write that
\* fails leaves the old file or a truncated one
StatsSave(p) ==
    LET r == inv[p]
    IN /\ r.pc = "stats_save"
       /\ \E io_ok \in Outcome, truncated \in BOOLEAN :
             /\ io_ok => ~truncated
             /\ inv' = [inv EXCEPT ![p] =
                          IF io_ok THEN Finish(r, r.ret, "none")
                                   ELSE Finish(r, "Err", "stats_io")]
             /\ stats_file' =
                   CASE io_ok -> [state |-> "ok", data |-> r.stats]
                     [] truncated -> [state |-> "corrupt", data |-> DefaultStats]
                     [] OTHER -> stats_file
       /\ UNCHANGED <<s3, fs, budget, faults, last_modified, cleanup, warm, proc, config,
                      list, retry>>

\* ----------------------------------------------------------- store_in_cache
object_key(obj, t, v) ==
    CASE obj = "archive" -> archive_key(t, v)
      [] obj = "metadata" -> metadata_key(t, v)
      [] OTHER -> checksum_key(t, v)

\* a mutant: a PUT under a key that is taken leaves the object there
put_keeps_existing(store, objs, staged, t, v) ==
    LET keys == {object_key(o, t, v) : o \in objs}
        of(k) == CHOOSE o \in objs : object_key(o, t, v) = k
    IN [k \in DOMAIN store \cup keys |->
           IF k \in DOMAIN store THEN store[k] ELSE staged[of(k)]]

\* a mutant: a PUT under a key that is taken removes the object
put_evicts_existing(store, objs, staged, t, v) ==
    LET keys == {object_key(o, t, v) : o \in objs}
        of(k) == CHOOSE o \in objs : object_key(o, t, v) = k
    IN [k \in (DOMAIN store \ keys) \cup (keys \ DOMAIN store) |->
           IF k \in keys THEN staged[of(k)] ELSE store[k]]

\* upload_file / upload_string: a PUT replaces the object under its key
PutAll(store, objs, staged, t, v) ==
    LET keys == {object_key(o, t, v) : o \in objs}
        of(k) == CHOOSE o \in objs : object_key(o, t, v) = k
    IN [k \in DOMAIN store \cup keys |->
           IF k \in keys THEN staged[of(k)] ELSE store[k]]

\* a mutant: every tool counts as declared
every_tool_is_declared(t, v) == TRUE

\* ToolDetector::is_tool_in_project, as the manifest collaborator answers it
is_tool_in_project(t, v) == <<t, v>> \in Manifest

\* the futures handed to tokio::try_join!
uploads_joined == {"archive", "metadata", "checksum"}

\* a mutant: the install path is not looked at before packing
install_path_unchecked(dir) == TRUE

\* store_in_cache, `install_path.exists()`
install_path_exists(dir) == dir.exists

\* store_in_cache from the install-path test to the point where the three
\* uploads are started: all of it is local work
StorePrepare(p) ==
    LET r == inv[p]
        dir == fs[r.install_path]
        bytes == Pack(dir.tree)
        checksum == calculate_file_hash(bytes)
        staged == [archive |-> bytes,
                   checksum |-> Text(checksum),
                   metadata |-> [tool |-> r.tool, version |-> r.version,
                                 platform |-> get_platform, arch |-> get_architecture,
                                 size_bytes |-> Len(bytes.entries),
                                 checksum |-> checksum, compressed |-> TRUE]]
        started == [o \in 1..3 |-> <<"PUT", object_key(
                        <<"archive", "metadata", "checksum">>[o], r.tool, r.version)>>]
    IN /\ r.op = "store" /\ r.pc = "prepare"
       /\ \E manifest_ok \in Outcome,
             local \in {"ok"} \cup (IF faults THEN {"tempdir", "pack", "hash"} ELSE {}) :
             inv' = [inv EXCEPT ![p] =
                       CASE ~install_path_exists(dir) -> Finish(r, "Err", "path_not_found")
                         [] ~manifest_ok -> Finish(r, "Err", "manifest_io")
                         [] ~is_tool_in_project(r.tool, r.version) ->
                              Finish(r, "Ok(())", "none")
                         [] local = "pack" -> Finish(r, "Err", "pack")
                         [] local # "ok" -> Finish(r, "Err", "local_io")
                         [] OTHER ->
                              [r EXCEPT !.pc = "upload", !.staged = staged,
                                        !.pending = uploads_joined,
                                        !.calls = SelectSeq(started,
                                            LAMBDA c : \E o \in uploads_joined :
                                               c[2] = object_key(o, r.tool, r.version))]]
       /\ UNCHANGED <<s3, stats_file, fs, budget, faults, last_modified, cleanup, warm, proc, config,
                      list, retry>>

\* a mutant: a failed upload is dropped from the join and the others go on
upload_failure_is_ignored(r, obj) ==
    LET c == [r EXCEPT !.pending = @ \ {obj}, !.failed = @ \cup {obj}]
    IN IF c.pending = {} THEN Finish(c, "Ok(())", "none") ELSE c

\* try_join! when one of its futures returns Err: the error is returned at once
upload_failed(r, obj) == Finish([r EXCEPT !.failed = @ \cup {obj}], "Err", "upload")

\* try_join! when one of its futures returns Ok
upload_succeeded(r, obj) ==
    LET c == [r EXCEPT !.pending = @ \ {obj}, !.uploaded = @ \cup {obj}]
    IN IF c.pending = {} THEN Finish(c, "Ok(())", "none") ELSE c

\* a mutant: the objects this call had uploaded are deleted when the join fails
join_error_rolls_back(store, r, landed) ==
    [k \in DOMAIN store \ {object_key(o, r.tool, r.version) : o \in r.uploaded}
        |-> store[k]]

\* store_in_cache when try_join! returns Err: `?` returns the error and
\* nothing that was uploaded is deleted
join_error_leaves(store, r, landed) ==
    PutAll(store, landed, r.staged, r.tool, r.version)

\* One of the joined uploads ends.  When it fails the join returns and the
\* other futures are dropped: a request already on the wire (landed) may
\* still be carried out by the store, the others never are.
StoreUpload(p) ==
    LET r == inv[p]
    IN /\ r.op = "store" /\ r.pc = "upload"
       /\ \E obj \in r.pending, ok \in Outcome, landed \in SUBSET r.pending :
             /\ obj \notin landed
             /\ ok => landed = {}
             /\ s3' = IF ok THEN PutAll(s3, {obj}, r.staged, r.tool, r.version)
                         ELSE join_error_leaves(s3, r, landed)
             /\ last_modified' = Stamp(last_modified, s3',
                                        {object_key(o, r.tool, r.version) :
                                            o \in IF ok THEN {obj} ELSE landed})
             /\ inv' = [inv EXCEPT ![p] =
                          IF ok THEN upload_succeeded(r, obj)
                                ELSE upload_failed(r, obj)]
       /\ UNCHANGED <<stats_file, fs, budget, faults, cleanup, warm, proc, config,
                      list, retry>>

\* ---------------------------------------------------------- the environment
\* The store is changed by others between invocations, while some invocation
\* is still to come.
Quiescent ==
    /\ \A p \in Procs : inv[p].pc \in {"idle", "done"}
    /\ \E p \in Procs : budget[p] > 0

\* Someone with access to the bucket corrupts a stored archive.

TamperArchive ==
    /\ Quiescent
    /\ \E k \in DOMAIN s3, t \in ToolInputs, v \in VersionInputs :
       /\ k = archive_key(t, v)
       /\ IsPristine(s3[k])
       /\ \E bad \in Corruptions(s3[k]) : s3' = Put(s3, k, bad)
       /\ last_modified' = Stamp(last_modified, s3', {k})
       /\ UNCHANGED <<stats_file, fs, inv, budget, faults, cleanup, warm, proc, config,
                      list, retry>>

\* Someone rewrites a stored checksum object: with trailing white space (as
\* sha256sum output has), or with bytes that are not text.
RewriteChecksum ==
    /\ Quiescent
    /\ \E k \in DOMAIN s3, t \in ToolInputs, v \in VersionInputs :
       /\ k = checksum_key(t, v)
       /\ s3[k].utf8 /\ ~s3[k].ws
       /\ \E utf8 \in BOOLEAN :
             s3' = Put(s3, k, [s3[k] EXCEPT !.utf8 = utf8, !.ws = utf8])
       /\ last_modified' = Stamp(last_modified, s3', {k})
       /\ UNCHANGED <<stats_file, fs, inv, budget, faults, cleanup, warm, proc, config,
                      list, retry>>

Next ==
    \/ \E p \in Procs : Begin(p)
    \/ \E p \in Procs : CheckHead(p)
    \/ \E p \in Procs : RestoreHead(p)
    \/ \E p \in Procs : RestoreDownload(p)
    \/ \E p \in Procs : RestoreVerify(p)
    \/ \E p \in Procs : RestoreExtract(p)
    \/ \E p \in Procs : StatsLoad(p)
    \/ \E p \in Procs : StatsSave(p)
    \/ \E p \in Procs : StorePrepare(p)
    \/ \E p \in Procs : StoreUpload(p)
    \/ TamperArchive
    \/ RewriteChecksum

Spec == Init /\ [][Next]_vars

\* ------------------------------------------------ two concurrent processes
\* p1 runs a sequence of commands while p2 runs one
RaceBudget(p) == IF p = "p1" THEN MaxRaceOps ELSE 1

\* Two processes (two runs of the command, in CI jobs or shells) work on the
\* same, previously empty key of the same bucket; each has an install
\* directory of its own content at hand.
InitRace ==
    /\ s3 = [k \in {} |-> 0]
    /\ stats_file = [state |-> "absent", data |-> DefaultStats]
    /\ fs = [p \in Paths |->
               [exists |-> TRUE, tree |-> IF p = "/opt/node" THEN TreeA ELSE TreeB]]
    /\ inv = [p \in Procs |-> Idle]
    /\ budget = [p \in Procs |-> RaceBudget(p)]
    /\ faults = FALSE
    /\ list = NoListing
    /\ retry = NoRetry
    /\ last_modified = [k \in {} |-> 0]
    /\ cleanup = NoCleanup
    /\ warm = NoWarm
    /\ proc = NoProc
    /\ config = DefaultConfig

\* a process stores or restores the one declared (tool, version)
RaceBegin(p) == Invoke(p, {"store", "restore"}, Manifest)

NextRace ==
    \/ \E p \in Procs : RaceBegin(p)
    \/ \E p \in Procs : RestoreHead(p)
    \/ \E p \in Procs : RestoreDownload(p)
    \/ \E p \in Procs : RestoreVerify(p)
    \/ \E p \in Procs : RestoreExtract(p)
    \/ \E p \in Procs : StatsLoad(p)
    \/ \E p \in Procs : StatsSave(p)
    \/ \E p \in Procs : StorePrepare(p)
    \/ \E p \in Procs : StoreUpload(p)

SpecRace == InitRace /\ [][NextRace]_vars

\* ------------------------------------------------------- cleanup_old_cache
\* pages of list_objects_v2 hold at most this many keys (1000 at the store)
PageSize == 5
\* deletes that may fail in one run
MaxDeleteFailures == 2

V2 == <<"2",".","0">>
\* the entries in the store when cleanup runs, and their age in days
StoredEntries ==
    {[tool |-> Node, version |-> V1, age |-> 1],
     [tool |-> Go, version |-> V1, age |-> 10],
     [tool |-> Node, version |-> V2, age |-> 30]}
\* an object of the same bucket that is not a cache entry
report_key == Prefix \o Slash \o <<"r","e","p","o","r","t">>
\* days_old as given on the command line (a u32)
DaysInputs == {7, 10, Today + 1}

\* UTF-8 binary order of the bytes that occur in keys
Bytes ==
    <<"-", ".", "/", "0", "1", "2", "3", "4", "5", "6", "7", "8", "9", "_",
      "a", "b", "c", "d", "e", "f", "g", "h", "i", "j", "k", "l", "m",
      "n", "o", "p", "q", "r", "s", "t", "u", "v", "w", "x", "y", "z">>
Rank(c) == CHOOSE i \in 1..Len(Bytes) : Bytes[i] = c
KeyBefore(a, b) ==
    LET n == IF Len(a) < Len(b) THEN Len(a) ELSE Len(b)
        diff == {i \in 1..n : a[i] # b[i]}
    IN IF diff = {} THEN Len(a) < Len(b)
       ELSE LET i == CHOOSE j \in diff : \A k \in diff : j <= k
            IN Rank(a[i]) < Rank(b[i])

RECURSIVE InKeyOrder(_)
InKeyOrder(keys) ==
    IF keys = {} THEN <<>>
    ELSE LET first == CHOOSE k \in keys : \A o \in keys \ {k} : KeyBefore(k, o)
         IN <<first>> \o InKeyOrder(keys \ {first})

HasPrefix(key, prefix) ==
    Len(key) >= Len(prefix) /\ SubSeq(key, 1, Len(prefix)) = prefix

\* format!("{}/tools", self.config.prefix)
tools_prefix == Prefix \o Slash \o <<"t","o","o","l","s">>

\* list_objects_v2 with a prefix: the keys under it in key order, those after
\* the continuation token (<<>> when there is none), one page of them
list_objects_v2(store, times, prefix, token) ==
    LET rest == {k \in DOMAIN store :
                    HasPrefix(k, prefix) /\ (token = <<>> \/ KeyBefore(token, k))}
        listing == InKeyOrder(rest)
        n == IF Len(listing) < PageSize THEN Len(listing) ELSE PageSize
    IN [contents |-> [i \in 1..n |->
                         [key |-> listing[i], last_modified |-> times[listing[i]]]],
        is_truncated |-> Len(listing) > n,
        next_continuation_token |-> IF n = 0 THEN token ELSE listing[n]]

\* what a u64 subtraction that wraps yields when max_age_seconds exceeds the
\* time since the epoch: 2^64 - (max_age_seconds - now), which is beyond every
\* timestamp; it is written here as the largest number there is to write
BeyondEveryTime == 2147483647

\* a mutant: the age is measured against the configured ttl_seconds
is_old_by_ttl(modified_time, cutoff_time) == modified_time < Now - config.ttl_seconds

\* a mutant: the comparison is turned around
is_old_reversed(modified_time, cutoff_time) == modified_time > cutoff_time

\* a mutant: the object at the cutoff itself counts as old
is_old_or_at_cutoff(modified_time, cutoff_time) == modified_time <= cutoff_time

\* `if modified_time < cutoff_time`
is_old(modified_time, cutoff_time) == modified_time < cutoff_time

\* a mutant: the first delete that fails ends the batch with its error
delete_failure_is_fatal(c, key) ==
    [c EXCEPT !.pc = "done", !.result = "Err", !.contents = <<>>,
              !.failed_keys = Append(@, key)]

\* `if let Err(e) = self.delete_object(&key).await { error!(..) }`: logged,
\* and the loop goes on with the next object
on_delete_failed(c, key) ==
    [c EXCEPT !.contents = Tail(@), !.failed_keys = Append(@, key)]

\* a mutant: after a delete the rest of the page is passed over
on_deleted_leaves_page(c, key) ==
    [c EXCEPT !.contents = <<>>, !.deleted_keys = Append(@, key)]

\* `else { deleted_keys.push(key) }`
on_deleted(c, key) ==
    [c EXCEPT !.contents = Tail(@), !.deleted_keys = Append(@, key)]

\* DeleteObject at the store
Delete(store, key) == [k \in DOMAIN store \ {key} |-> store[k]]

\* the three objects a store_in_cache of tree leaves for (t, v)
StoredEntry(t, v, tree) ==
    LET bytes == Pack(tree)
        checksum == calculate_file_hash(bytes)
    IN [archive |-> bytes,
        checksum |-> Text(checksum),
        metadata |-> [tool |-> t, version |-> v,
                      platform |-> get_platform, arch |-> get_architecture,
                      size_bytes |-> Len(bytes.entries),
                      checksum |-> checksum, compressed |-> TRUE]]

EntryOf(k) ==
    CHOOSE e \in StoredEntries :
       \E o \in uploads_joined : object_key(o, e.tool, e.version) = k
ObjectOf(k) ==
    CHOOSE o \in uploads_joined :
       object_key(o, EntryOf(k).tool, EntryOf(k).version) = k

\* The store holds three entries written 1, 10 and 30 days ago and an object
\* outside the tools prefix written 30 days ago; cleanup has not run.
InitCleanup ==
    LET keys == {object_key(o, e.tool, e.version) :
                    o \in uploads_joined, e \in StoredEntries}
    IN /\ s3 = [k \in keys \cup {report_key} |->
                  IF k = report_key THEN EmptyArchive
                  ELSE StoredEntry(EntryOf(k).tool, EntryOf(k).version, TreeA)[ObjectOf(k)]]
       /\ last_modified = [k \in keys \cup {report_key} |->
                  Now - SecondsPerDay * (IF k = report_key THEN 30 ELSE EntryOf(k).age)]
       /\ stats_file = [state |-> "absent", data |-> DefaultStats]
       /\ fs = [p \in Paths |->
                  IF p = "/opt/node" THEN [exists |-> TRUE, tree |-> TreeA]
                                     ELSE [exists |-> FALSE, tree |-> EmptyTree]]
       /\ inv = [p \in Procs |-> Idle]
       /\ budget = [p \in Procs |-> IF p = "p1" THEN 1 ELSE 0]
       /\ faults = TRUE
       /\ list = NoListing
       /\ retry = NoRetry
       /\ cleanup = NoCleanup
       /\ warm = NoWarm
       /\ proc = NoProc
       /\ config = DefaultConfig

\* cleanup_old_cache: max_age_seconds from days_old, and cleanup_old_objects
\* up to its loop: cutoff_time = now - max_age_seconds in u64.  When
\* max_age_seconds exceeds now the subtraction panics in a build with overflow
\* checks and wraps in a build without.
CleanupStart ==
    /\ cleanup.pc = "idle"
    /\ \E days_old \in DaysInputs, overflow_checks \in BOOLEAN :
          LET max_age_seconds == days_old * SecondsPerDay
              c == [cleanup EXCEPT !.days_old = days_old, !.pre_s3 = s3,
                                   !.pre_last_modified = last_modified]
          IN cleanup' =
                CASE max_age_seconds <= Now ->
                        [c EXCEPT !.pc = "list", !.cutoff_time = Now - max_age_seconds]
                  [] max_age_seconds > Now /\ overflow_checks ->
                        [c EXCEPT !.pc = "done", !.result = "panic"]
                  [] OTHER ->
                        [c EXCEPT !.pc = "list", !.cutoff_time = BeyondEveryTime]
    /\ UNCHANGED <<s3, stats_file, fs, inv, budget, faults, last_modified, warm, proc,
                 config, list, retry>>

\* one list_objects_v2 request of the loop; its failure is returned with `?`
CleanupList ==
    /\ cleanup.pc = "list"
    /\ \E ok \in Outcome :
          LET response == list_objects_v2(s3, last_modified, tools_prefix,
                                          cleanup.continuation_token)
          IN cleanup' =
                IF ok THEN [cleanup EXCEPT !.pc = "scan",
                                           !.contents = response.contents,
                                           !.is_truncated = response.is_truncated,
                                           !.continuation_token =
                                               response.next_continuation_token]
                      ELSE [cleanup EXCEPT !.pc = "done", !.result = "Err"]
    /\ UNCHANGED <<s3, stats_file, fs, inv, budget, faults, last_modified, warm, proc,
                 config, list, retry>>

\* one turn of `for object in contents`, or, when the page is used up, the
\* test of is_truncated that ends the loop or asks for the next page
CleanupObject ==
    /\ cleanup.pc = "scan"
    /\ IF cleanup.contents = <<>>
       THEN /\ cleanup' = IF cleanup.is_truncated
                          THEN [cleanup EXCEPT !.pc = "list"]
                          ELSE [cleanup EXCEPT !.pc = "done", !.result = "Ok"]
            /\ UNCHANGED <<s3, last_modified>>
       ELSE LET object == Head(cleanup.contents)
            IN IF is_old(object.last_modified, cleanup.cutoff_time)
               THEN \E ok \in BOOLEAN :
                       /\ ~ok => faults /\ Len(cleanup.failed_keys) < MaxDeleteFailures
                       /\ IF ok
                          THEN /\ s3' = Delete(s3, object.key)
                               /\ last_modified' = Delete(last_modified, object.key)
                               /\ cleanup' = on_deleted(cleanup, object.key)
                          ELSE /\ cleanup' = on_delete_failed(cleanup, object.key)
                               /\ UNCHANGED <<s3, last_modified>>
               ELSE /\ cleanup' = [cleanup EXCEPT !.contents = Tail(@)]
                    /\ UNCHANGED <<s3, last_modified>>
    /\ UNCHANGED <<stats_file, fs, inv, budget, faults, warm, proc, config,
                   list, retry>>

\* after the cleanup a process checks or restores one of the entries
CleanupUse(p) ==
    /\ cleanup.pc = "done"
    /\ Invoke(p, {"check", "restore"}, {<<e.tool, e.version>> : e \in StoredEntries})

NextCleanup ==
    \/ CleanupStart
    \/ CleanupList
    \/ CleanupObject
    \/ \E p \in Procs : CleanupUse(p)
    \/ \E p \in Procs : CheckHead(p)
    \/ \E p \in Procs : RestoreHead(p)
    \/ \E p \in Procs : RestoreDownload(p)
    \/ \E p \in Procs : RestoreVerify(p)
    \/ \E p \in Procs : RestoreExtract(p)
    \/ \E p \in Procs : StatsLoad(p)
    \/ \E p \in Procs : StatsSave(p)

SpecCleanup == InitCleanup /\ [][NextCleanup]_vars

\* -------------------------------------------------- the statistics alone
\* update_stats calls one process makes in a row
MaxStatsOps == 2

V18 == <<"1","8",".","1","7",".","0">>
StatsRequests == {<<Node, V18>>, <<Go, V1>>}

\* The calls that record a miss pass the same arguments and differ in the line
\* logged before them: the first and the last of the four are kept.
MissSites == {"not_found", "extraction_failed"}

\* p1 runs a sequence of restores while p2 runs one
StatsBudget(p) == IF p = "p1" THEN MaxStatsOps ELSE 1

\* a statistics file this program wrote in an earlier run, when other versions
\* of the tools were in use
PriorStats ==
    update_stats(update_stats(DefaultStats, Node, V1, TRUE, 1), Go, V2, FALSE, 0)

\* The statistics file is absent, does not parse, or is one the program wrote;
\* nothing else matters here.
InitStats ==
    /\ stats_file \in {[state |-> "absent", data |-> DefaultStats],
                       [state |-> "corrupt", data |-> DefaultStats],
                       [state |-> "ok", data |-> PriorStats]}
    /\ s3 = [k \in {} |-> 0]
    /\ last_modified = [k \in {} |-> 0]
    /\ fs = [p \in Paths |->
               IF p = "/opt/node" THEN [exists |-> TRUE, tree |-> TreeA]
                                  ELSE [exists |-> FALSE, tree |-> EmptyTree]]
    /\ inv = [p \in Procs |-> Idle]
    /\ budget = [p \in Procs |-> StatsBudget(p)]
    /\ faults = FALSE
    /\ list = NoListing
    /\ retry = NoRetry
    /\ cleanup = NoCleanup
    /\ warm = NoWarm
    /\ proc = NoProc
    /\ config = DefaultConfig

\* restore_from_cache arrives at one of its five update_stats calls: a hit with
\* the elapsed milliseconds, or a miss with 0
ReachUpdateStats(p) ==
    /\ inv[p].pc \in {"idle", "done"} /\ budget[p] > 0
    /\ \E req \in StatsRequests, cache_hit \in BOOLEAN, d \in 0..MaxDurationMs,
          status \in MissSites :
          LET r == [Idle EXCEPT !.op = "restore", !.tool = req[1], !.version = req[2],
                                !.pre_s3 = s3, !.pre_stats = stats_file, !.pre_fs = fs]
          IN /\ cache_hit => status = "not_found"
             /\ ~cache_hit => d = 0
             /\ inv' = [inv EXCEPT ![p] =
                          IF cache_hit THEN Record(r, TRUE, d, "success", "Ok(true)")
                                       ELSE Record(r, FALSE, 0, status, "Ok(false)")]
    /\ budget' = [budget EXCEPT ![p] = @ - 1]
    /\ UNCHANGED <<s3, stats_file, fs, faults, last_modified, cleanup, warm, proc, config,
                   list, retry>>

NextStats ==
    \/ \E p \in Procs : ReachUpdateStats(p)
    \/ \E p \in Procs : StatsLoad(p)
    \/ \E p \in Procs : StatsSave(p)

SpecStats == InitStats /\ [][NextStats]_vars

\* ------------------------------------------------------- the keys alone
\* keys derived in one run of the key specification
MaxKeys == 2

\* what utils::get_platform and utils::get_architecture return in the builds
\* there are
Platforms ==
    {<<"l","i","n","u","x">>, <<"d","a","r","w","i","n">>,
     <<"w","i","n","d","o","w","s">>, <<"u","n","k","n","o","w","n">>}
Architectures ==
    {<<"x","8","6","_","6","4">>, <<"a","a","r","c","h","6","4">>,
     <<"a","r","m">>, <<"u","n","k","n","o","w","n">>}

\* tools and versions for the keys: valid ones, and two with a '/' that
\* validation refuses
KeyTools == {Node, <<"a">>, SlashTool}
KeyVersions == {V1, V18, <<"b","/","1",".","0">>}

\* builds of the program on every platform call get_cache_key with every
\* tool and version
KeyInputs == KeyTools \X KeyVersions \X Platforms \X Architectures

\* Nothing is stored and no key has been derived. In this specification s3
\* maps each key derived so far to the inputs that gave it.
InitKeys ==
    /\ s3 = [k \in {} |-> {}]
    /\ last_modified = [k \in {} |-> 0]
    /\ stats_file = [state |-> "absent", data |-> DefaultStats]
    /\ fs = [p \in Paths |-> [exists |-> FALSE, tree |-> EmptyTree]]
    /\ inv = [p \in Procs |-> Idle]
    /\ budget = [p \in Procs |-> IF p = "p1" THEN MaxKeys ELSE 0]
    /\ faults = FALSE
    /\ list = NoListing
    /\ retry = NoRetry
    /\ cleanup = NoCleanup
    /\ warm = NoWarm
    /\ proc = NoProc
    /\ config = DefaultConfig

\* Config::get_cache_key in the build for (platform, arch)
DeriveKey ==
    /\ budget["p1"] > 0
    /\ \E in \in KeyInputs :
          LET key == format_cache_key(Prefix, in[1], in[2], in[3], in[4])
          IN s3' = [k \in DOMAIN s3 \cup {key} |->
                      (IF k \in DOMAIN s3 THEN s3[k] ELSE {})
                          \cup (IF k = key THEN {in} ELSE {})]
    /\ budget' = [budget EXCEPT !["p1"] = @ - 1]
    /\ UNCHANGED <<stats_file, fs, inv, faults, last_modified, cleanup, warm, proc, config,
                   list, retry>>

NextKeys == DeriveKey

SpecKeys == InitKeys /\ [][NextKeys]_vars

\* ------------------------------------------------- the validators alone
Repeat(c, n) == [i \in 1..n |-> c]

\* characters of each class of the two patterns, and characters of neither
ProbeChars == {"a", "Z", "9", ".", "_", "-", "+", "/", "@", "|", " ", "\n"}

\* lengths around the two limits
ProbeLengths ==
    {0, 1, 2, MaxVersionLen - 1, MaxVersionLen, MaxVersionLen + 1,
     MaxToolNameLen - 1, MaxToolNameLen, MaxToolNameLen + 1}

Terraform15 == <<"t","e","r","r","a","f","o","r","m","-","1",".","5">>
Beta1 == <<"1",".","5",".","0","-","b","e","t","a",".","1">>
ToolSlashName == <<"t","o","o","l","/","n","a","m","e">>
ToolSpaceName == <<"t","o","o","l"," ","n","a","m","e">>
ToolAtName == <<"t","o","o","l","@","n","a","m","e">>
ToolPipeName == <<"t","o","o","l","|","n","a","m","e">>
Build123 == <<"2",".","0",".","0","+","b","u","i","l","d",".","1","2","3">>
V1Space0 == <<"1",".","0"," ","0">>
V1AtLatest == <<"v","1",".","0",".","0","@","l","a","t","e","s","t">>

\* the strings of the tests, runs of one character of every probed length,
\* and such runs with one other character at the end
ValidatorInputs ==
    {Terraform15, Beta1, ToolSlashName, ToolSpaceName, ToolAtName, ToolPipeName,
     Build123, V1Space0, V1AtLatest, Node, V18}
        \cup {Repeat(c, n) : c \in ProbeChars, n \in ProbeLengths}
        \cup {Repeat("a", n - 1) \o <<c>> : c \in ProbeChars, n \in ProbeLengths \ {0}}

\* Nothing is stored; no validator has been called.
InitValidators ==
    /\ s3 = [k \in {} |-> 0]
    /\ last_modified = [k \in {} |-> 0]
    /\ stats_file = [state |-> "absent", data |-> DefaultStats]
    /\ fs = [p \in Paths |-> [exists |-> FALSE, tree |-> EmptyTree]]
    /\ inv = [p \in Procs |-> Idle]
    /\ budget = [p \in Procs |-> 0]
    /\ faults = FALSE
    /\ list = NoListing
    /\ retry = NoRetry
    /\ cleanup = NoCleanup
    /\ warm = NoWarm
    /\ proc = NoProc
    /\ config = DefaultConfig

\* utils::is_valid_tool_name is called and returns
CallIsValidToolName ==
    /\ \E name \in ValidatorInputs :
          inv' = [inv EXCEPT !["p1"] =
                    [Idle EXCEPT !.op = "is_valid_tool_name", !.tool = name,
                                 !.pc = "done",
                                 !.result = IF is_valid_tool_name(name)
                                            THEN "true" ELSE "false"]]
    /\ UNCHANGED <<s3, stats_file, fs, budget, faults, last_modified, cleanup, warm, proc, config,
                   list, retry>>

\* utils::is_valid_version is called and returns
CallIsValidVersion ==
    /\ \E version \in ValidatorInputs :
          inv' = [inv EXCEPT !["p1"] =
                    [Idle EXCEPT !.op = "is_valid_version", !.version = version,
                                 !.pc = "done",
                                 !.result = IF is_valid_version(version)
                                            THEN "true" ELSE "false"]]
    /\ UNCHANGED <<s3, stats_file, fs, budget, faults, last_modified, cleanup, warm, proc, config,
                   list, retry>>

NextValidators == CallIsValidToolName \/ CallIsValidVersion

SpecValidators == InitValidators /\ [][NextValidators]_vars

\* ------------------------------------------------------ warm_project_cache
\* the tool sets the project files can declare
Projects == {{}, {<<Node, V1>>, <<Go, V1>>}}

\* unique_tools.into_iter().collect(): the tools in the order the hash map
\* gives them
Orders(tools) ==
    {order \in [1..Cardinality(tools) -> tools] :
        \A a, b \in 1..Cardinality(tools) : order[a] = order[b] => a = b}

\* where `mise install` puts a tool and `mise where` finds it
InstallDir(t) == IF t = Node THEN "/opt/node" ELSE "/new"
InstalledTree(t) == IF t = Node THEN TreeA ELSE TreeB

\* how `mise install` can end: done, not started, or a failing exit status
InstallerOutcomes == {"ok"} \cup (IF faults THEN {"spawn", "exit"} ELSE {})

\* a mutant: an installer that fails ends the warming
install_failure_aborts(w, tool, what) ==
    [w EXCEPT !.pc = "done", !.result = "Err",
              !.attempted = Append(@, tool)]

\* warm_project_cache, `if let Err(e) = self.install_tool(..)`: a warning and
\* on to the next tool
on_install_failed(w, tool, what) ==
    [w EXCEPT !.warned = Append(@, <<tool, what>>),
              !.attempted = Append(@, tool),
              !.missing_tools = Tail(@)]

\* install_tool returned Ok(()): on to the next tool
on_installed(w, tool) ==
    [w EXCEPT !.attempted = Append(@, tool), !.missing_tools = Tail(@),
              !.pc = "install"]

\* The project declares its tools, any of them may be in the store already,
\* nothing is installed, and warm_project_cache has been called.
InitWarm ==
    /\ \E held \in SUBSET {<<Node, V1>>, <<Go, V1>>} :
          LET keys == {object_key(o, e[1], e[2]) : o \in uploads_joined, e \in held}
              owner(k) == CHOOSE e \in held :
                             \E o \in uploads_joined : object_key(o, e[1], e[2]) = k
              object(k) == CHOOSE o \in uploads_joined :
                              object_key(o, owner(k)[1], owner(k)[2]) = k
          IN /\ s3 = [k \in keys |->
                        StoredEntry(owner(k)[1], owner(k)[2],
                                    InstalledTree(owner(k)[1]))[object(k)]]
             /\ last_modified = [k \in keys |-> Now - SecondsPerDay]
    /\ stats_file = [state |-> "absent", data |-> DefaultStats]
    /\ fs = [p \in Paths |-> [exists |-> FALSE, tree |-> EmptyTree]]
    /\ inv = [p \in Procs |-> Idle]
    /\ budget = [p \in Procs |-> 0]
    /\ faults = TRUE
    /\ list = NoListing
    /\ retry = NoRetry
    /\ cleanup = NoCleanup
    /\ warm = [NoWarm EXCEPT !.pc = "start"]
    /\ proc = NoProc
    /\ config = DefaultConfig

\* warm_project_cache up to the first loop: get_project_tools and the test
\* for an empty project
WarmTools ==
    /\ warm.pc = "start"
    /\ \E ok \in Outcome, project \in Projects :
          \E order \in Orders(project) :
             warm' =
                CASE ~ok -> [warm EXCEPT !.pc = "done", !.result = "Err"]
                  [] project = {} -> [warm EXCEPT !.pc = "done", !.result = "Ok"]
                  [] OTHER -> [warm EXCEPT !.pc = "check", !.tools = order, !.i = 1,
                                           !.pre_s3 = s3]
    /\ UNCHANGED <<s3, stats_file, fs, inv, budget, faults, last_modified, cleanup,
                   proc, config, list, retry>>

\* one turn of `for (tool, version) in &tools`: check_cache, whose error is
\* returned with `?`
WarmCheck ==
    /\ warm.pc = "check" /\ warm.i <= Len(warm.tools)
    /\ LET tool == warm.tools[warm.i]
       IN \E answer \in HeadAnswers(metadata_key(tool[1], tool[2])) :
             LET res == IF validate_tool_version(tool[1], tool[2])
                        THEN object_exists(answer) ELSE "Err"
             IN warm' =
                   CASE res = "Err" -> [warm EXCEPT !.pc = "done", !.result = "Err"]
                     [] res = "Ok(false)" ->
                          [warm EXCEPT !.i = @ + 1,
                                       !.missing_tools = Append(@, tool)]
                     [] OTHER -> [warm EXCEPT !.i = @ + 1]
    /\ UNCHANGED <<s3, stats_file, fs, inv, budget, faults, last_modified, cleanup,
                   proc, config, list, retry>>

\* after the first loop: nothing is missing, or the installs begin
WarmChecked ==
    /\ warm.pc = "check" /\ warm.i > Len(warm.tools)
    /\ warm' = IF warm.missing_tools = <<>>
               THEN [warm EXCEPT !.pc = "done", !.result = "Ok"]
               ELSE [warm EXCEPT !.pc = "install"]
    /\ UNCHANGED <<s3, stats_file, fs, inv, budget, faults, last_modified, cleanup,
                   proc, config, list, retry>>

\* one turn of `for (tool, version) in missing_tools` up to the call of
\* store_in_cache inside install_tool, or the end of the loop
WarmInstall ==
    /\ warm.pc = "install"
    /\ IF warm.missing_tools = <<>>
       THEN /\ warm' = [warm EXCEPT !.pc = "done", !.result = "Ok"]
            /\ UNCHANGED <<fs, inv>>
       ELSE LET tool == Head(warm.missing_tools)
                dir == InstallDir(tool[1])
            IN \E installer \in InstallerOutcomes, where_ok \in Outcome :
                  IF installer # "ok"
                  THEN /\ warm' = on_install_failed(warm, tool, installer)
                       /\ UNCHANGED <<fs, inv>>
                  ELSE /\ fs' = [fs EXCEPT ![dir] =
                                   [exists |-> TRUE, tree |-> InstalledTree(tool[1])]]
                       /\ IF ~where_ok
                          THEN /\ warm' = on_installed(warm, tool)
                               /\ UNCHANGED inv
                          ELSE /\ warm' = [warm EXCEPT !.pc = "store"]
                               /\ inv' = [inv EXCEPT !["p1"] =
                                    LET r == [Idle EXCEPT !.op = "store",
                                                !.tool = tool[1], !.version = tool[2],
                                                !.install_path = dir, !.pre_s3 = s3,
                                                !.pre_stats = stats_file, !.pre_fs = fs']
                                    IN IF validate_tool_version(tool[1], tool[2])
                                       THEN [r EXCEPT !.pc = FirstPc("store")]
                                       ELSE Finish(r, "Err", "validate")]
    /\ UNCHANGED <<s3, stats_file, budget, faults, last_modified, cleanup, proc, config,
                   list, retry>>

\* install_tool after store_in_cache returned: its error is a warning
WarmStored ==
    /\ warm.pc = "store" /\ inv["p1"].op = "store" /\ inv["p1"].pc = "done"
    /\ LET tool == Head(warm.missing_tools)
           w == IF inv["p1"].result = "Err"
                THEN [warm EXCEPT !.warned = Append(@, <<tool, "store">>)]
                ELSE warm
       IN warm' = on_installed(w, tool)
    /\ UNCHANGED <<s3, stats_file, fs, inv, budget, faults, last_modified, cleanup,
                   proc, config, list, retry>>

NextWarm ==
    \/ WarmTools
    \/ WarmCheck
    \/ WarmChecked
    \/ WarmInstall
    \/ WarmStored
    \/ StorePrepare("p1")
    \/ StoreUpload("p1")

SpecWarm == InitWarm /\ [][NextWarm]_vars

\* ------------------------------------------------------------------- main
\* the commands that take --hook-mode, run for one tool or in the foreground
Commands == {"check", "restore", "store", "warm"}

\* what the command's operation returned, once it has
CommandResult ==
    IF proc.command = "warm" THEN warm.result ELSE inv["p1"].result

CommandReturned ==
    IF proc.command = "warm"
    THEN warm.pc = "done"
    ELSE inv["p1"].pc = "done" /\ inv["p1"].op = proc.command

\* a mutant: an error ends the process with a failure status in hook mode too
hook_error_is_fatal(hook_mode) == 1

\* main, `(Err(e), true) => std::process::exit(0)` against `(Err(e), false) =>
\* Err(e)`, and the same choice for the configuration and the client
on_error(hook_mode) == IF hook_mode THEN 0 ELSE 1

\* handle_check_single, handle_restore_single, handle_store_single and the
\* warm arm of execute_command followed by the end of main: the exit status
\* for what the operation returned
exit_status(command, hook_mode, result) ==
    CASE result = "Err" -> on_error(hook_mode)
      [] command = "check" /\ result = "Ok(false)" -> 1
      [] command = "restore" /\ result = "Ok(false)" -> 1
      [] OTHER -> 0

Exit(code, why) ==
    [proc EXCEPT !.pc = "exited", !.exited = TRUE, !.exit_code = code,
                 !.failure = why]

\* A process has been started with one of the commands, in hook mode or not;
\* the store is empty or holds node 1.0, which is installed locally.
InitMain ==
    /\ \E held \in BOOLEAN :
          LET keys == IF held THEN {object_key(o, Node, V1) : o \in uploads_joined}
                              ELSE {}
          IN /\ s3 = [k \in keys |->
                        StoredEntry(Node, V1, TreeA)[
                           CHOOSE o \in uploads_joined : object_key(o, Node, V1) = k]]
             /\ last_modified = [k \in keys |-> Now - SecondsPerDay]
    /\ stats_file = [state |-> "absent", data |-> DefaultStats]
    /\ fs = [p \in Paths |->
               IF p = "/opt/node" THEN [exists |-> TRUE, tree |-> TreeA]
                                  ELSE [exists |-> FALSE, tree |-> EmptyTree]]
    /\ inv = [p \in Procs |-> Idle]
    /\ budget = [p \in Procs |-> IF p = "p1" THEN 1 ELSE 0]
    /\ faults = TRUE
    /\ list = NoListing
    /\ retry = NoRetry
    /\ cleanup = NoCleanup
    /\ warm = NoWarm
    /\ \E command \in Commands, hook_mode \in BOOLEAN :
          proc = [NoProc EXCEPT !.pc = "start", !.command = command,
                                !.hook_mode = hook_mode]
    /\ config = DefaultConfig

\* main from Config::load to the test of config.enabled
MainLoadConfig ==
    /\ proc.pc = "start"
    /\ \E loaded \in Outcome, enabled \in BOOLEAN :
          IF ~loaded
          THEN /\ proc' = Exit(on_error(proc.hook_mode), "config")
               /\ UNCHANGED config
          ELSE /\ config' = [DefaultConfig EXCEPT !.bucket = "bucket",
                                                  !.enabled = enabled]
               /\ proc' = IF enabled THEN [proc EXCEPT !.pc = "client"]
                                     ELSE Exit(0, "disabled")
    /\ UNCHANGED <<s3, stats_file, fs, inv, budget, faults, last_modified, cleanup,
                   warm, list, retry>>

\* main, S3Client::new
MainNewClient ==
    /\ proc.pc = "client"
    /\ \E ok \in Outcome :
          proc' = IF ok THEN [proc EXCEPT !.pc = "run"]
                        ELSE Exit(on_error(proc.hook_mode), "client")
    /\ UNCHANGED <<s3, stats_file, fs, inv, budget, faults, last_modified, cleanup,
                   warm, config, list, retry>>

\* execute_command for check, restore and store with a tool and a version:
\* the handler calls the cache manager
MainCall ==
    /\ proc.pc = "run" /\ proc.command \in Ops
    /\ Invoke("p1", {proc.command}, Requests)

\* execute_command for warm in the foreground
MainWarm ==
    /\ proc.pc = "run" /\ proc.command = "warm" /\ warm.pc = "idle"
    /\ warm' = [warm EXCEPT !.pc = "start"]
    /\ UNCHANGED <<s3, stats_file, fs, inv, budget, faults, last_modified, cleanup,
                   proc, config, list, retry>>

\* the handler after the operation returned, and the end of main
MainExit ==
    /\ proc.pc = "run" /\ CommandReturned
    /\ proc' = [Exit(exit_status(proc.command, proc.hook_mode, CommandResult),
                     IF CommandResult = "Err" THEN "command" ELSE "none")
                  EXCEPT !.miss = CommandResult = "Ok(false)"]
    /\ UNCHANGED <<s3, stats_file, fs, inv, budget, faults, last_modified, cleanup,
                   warm, config, list, retry>>

\* the operations run in a process that has reached execute_command and has
\* not exited
Running == proc.pc = "run"

NextMain ==
    \/ MainLoadConfig
    \/ MainNewClient
    \/ MainCall
    \/ MainWarm
    \/ MainExit
    \/ Running /\ CheckHead("p1")
    \/ Running /\ RestoreHead("p1")
    \/ Running /\ RestoreDownload("p1")
    \/ Running /\ RestoreVerify("p1")
    \/ Running /\ RestoreExtract("p1")
    \/ Running /\ StatsLoad("p1")
    \/ Running /\ StatsSave("p1")
    \/ Running /\ StorePrepare("p1")
    \/ Running /\ StoreUpload("p1")
    \/ WarmTools
    \/ WarmCheck
    \/ WarmChecked
    \/ WarmInstall
    \/ WarmStored

SpecMain == InitMain /\ [][NextMain]_vars

\* ----------------------------------------------------------- Config::load
\* A configuration file is a sequence of lines.  A line is `key = value` as
\* TOML writes a field of Config, `KEY=value` as the legacy format writes a
\* setting (with or without double quotes around the value), or text that is
\* neither.
TomlLine(key, value) == [form |-> "toml", key |-> key, value |-> value, quoted |-> FALSE]
ShellLine(key, text, quoted) ==
    [form |-> "shell", key |-> key, value |-> text, quoted |-> quoted]
JunkLine == [form |-> "junk", key |-> "", value |-> "", quoted |-> FALSE]

\* the fields toml::from_str needs to build a Config (log_file is an Option)
RequiredFields ==
    {"enabled", "bucket", "region", "prefix", "ttl_seconds", "parallel_uploads",
     "compression", "debug"}

\* the decimal numerals among the texts of the inputs, as str::parse::<u64>
\* and str::parse::<usize> read them; every other text is an error
Numerals == [text \in {"1800", "3600", "5"} |->
               CASE text = "1800" -> 1800 [] text = "3600" -> 3600 [] OTHER -> 5]
parse_u64(text) ==
    IF text \in DOMAIN Numerals THEN [ok |-> TRUE, value |-> Numerals[text]]
                                ELSE [ok |-> FALSE, value |-> 0]

\* str::to_lowercase on the texts of the inputs
to_lowercase(text) == IF text \in {"TRUE", "True"} THEN "true" ELSE text

\* The texts of bucket names and prefixes among the inputs, and the characters
\* of each as str::chars yields them.
chars(text) ==
    CASE text = "" -> <<>>
       [] text = "file-bucket" -> <<"f", "i", "l", "e", "-", "b", "u", "c", "k", "e", "t">>
       [] text = "env-bucket" -> <<"e", "n", "v", "-", "b", "u", "c", "k", "e", "t">>
       [] text = "shell-bucket" -> <<"s", "h", "e", "l", "l", "-", "b", "u", "c", "k", "e", "t">>
       [] text = "user-bucket" -> <<"u", "s", "e", "r", "-", "b", "u", "c", "k", "e", "t">>
       [] text = "bucket" -> <<"b", "u", "c", "k", "e", "t">>
       [] text = "valid-bucket" -> <<"v", "a", "l", "i", "d", "-", "b", "u", "c", "k", "e", "t">>
       [] text = "Invalid_Bucket" -> <<"I", "n", "v", "a", "l", "i", "d", "_", "B", "u", "c", "k", "e", "t">>
       [] text = "ab" -> <<"a", "b">>
       [] text = "abc" -> <<"a", "b", "c">>
       [] text = "aaaaaaaaaaaaaaaaaaaaaaaaaaaaaaaaaaaaaaaaaaaaaaaaaaaaaaaaaaaaaaa" -> Repeat("a", 63)
       [] text = "aaaaaaaaaaaaaaaaaaaaaaaaaaaaaaaaaaaaaaaaaaaaaaaaaaaaaaaaaaaaaaaa" -> Repeat("a", 64)
       [] text = "-bucket" -> <<"-", "b", "u", "c", "k", "e", "t">>
       [] text = "bucket-" -> <<"b", "u", "c", "k", "e", "t", "-">>
       [] text = "my..bucket" -> <<"m", "y", ".", ".", "b", "u", "c", "k", "e", "t">>
       [] text = "my.-bucket" -> <<"m", "y", ".", "-", "b", "u", "c", "k", "e", "t">>
       [] text = "my-.bucket" -> <<"m", "y", "-", ".", "b", "u", "c", "k", "e", "t">>
       [] text = "my_bucket" -> <<"m", "y", "_", "b", "u", "c", "k", "e", "t">>
       [] text = "my.bucket.1" -> <<"m", "y", ".", "b", "u", "c", "k", "e", "t", ".", "1">>
       [] text = "192.168.1.1" -> <<"1", "9", "2", ".", "1", "6", "8", ".", "1", ".", "1">>
       [] text = "1.2.3" -> <<"1", ".", "2", ".", "3">>
       [] text = "1.2.3.4.5" -> <<"1", ".", "2", ".", "3", ".", "4", ".", "5">>
       [] text = "1.2.3.x" -> <<"1", ".", "2", ".", "3", ".", "x">>
       [] text = "mise-cache" -> <<"m", "i", "s", "e", "-", "c", "a", "c", "h", "e">>
       [] text = "file-prefix" -> <<"f", "i", "l", "e", "-", "p", "r", "e", "f", "i", "x">>
       [] text = "shell-prefix" -> <<"s", "h", "e", "l", "l", "-", "p", "r", "e", "f", "i", "x">>
       [] text = "test-prefix" -> <<"t", "e", "s", "t", "-", "p", "r", "e", "f", "i", "x">>
       [] text = "/abs" -> <<"/", "a", "b", "s">>
       [] text = "a//b" -> <<"a", "/", "/", "b">>
       [] text = "a/b" -> <<"a", "/", "b">>
       [] text = "a/" -> <<"a", "/">>

\* str::contains for a pattern of two characters
contains(s, a, b) == \E n \in 1..(Len(s) - 1) : s[n] = a /\ s[n + 1] = b

\* Regex ^[a-z0-9.-]+$
valid_chars_regex(s) ==
    /\ s # <<>>
    /\ \A n \in 1..Len(s) : s[n] \in Lower \cup Digit \cup {".", "-"}

\* Regex ^\d+\.\d+\.\d+\.\d+$, read from the left: a run of digits, then three
\* times a period and a run of digits, then the end
RECURSIVE digits_then(_, _, _, _)
digits_then(s, n, in_run, periods) ==
    IF n > Len(s) THEN in_run /\ periods = 3
    ELSE IF s[n] \in Digit THEN digits_then(s, n + 1, TRUE, periods)
    ELSE IF s[n] = "." /\ in_run /\ periods < 3
         THEN digits_then(s, n + 1, FALSE, periods + 1)
    ELSE FALSE
ip_regex(s) == digits_then(s, 1, FALSE, 0)

\* a mutant: a name formatted as an IP address is taken
is_valid_s3_bucket_name_takes_ip(name) ==
    LET s == chars(name)
    IN /\ Len(s) >= MinBucketNameLen /\ Len(s) <= MaxBucketNameLen
       /\ s[1] \in Lower \cup Digit
       /\ s[Len(s)] \in Lower \cup Digit
       /\ valid_chars_regex(s)
       /\ ~(contains(s, ".", ".") \/ contains(s, ".", "-") \/ contains(s, "-", "."))

\* utils::is_valid_s3_bucket_name, test by test in the order of the code
is_valid_s3_bucket_name(name) ==
    LET s == chars(name)
    IN IF Len(s) < MinBucketNameLen \/ Len(s) > MaxBucketNameLen THEN FALSE
       ELSE IF s[1] \notin Lower /\ s[1] \notin Digit THEN FALSE
       ELSE IF s[Len(s)] \notin Lower /\ s[Len(s)] \notin Digit THEN FALSE
       ELSE IF ~valid_chars_regex(s) THEN FALSE
       ELSE IF contains(s, ".", ".") \/ contains(s, ".", "-") \/ contains(s, "-", ".")
            THEN FALSE
       ELSE IF ip_regex(s) THEN FALSE
       ELSE TRUE

\* tests/test_config.rs, test_config_from_toml_file, with other values
FullToml ==
    <<TomlLine("enabled", FALSE), TomlLine("bucket", "file-bucket"),
      TomlLine("region", "eu-west-1"), TomlLine("prefix", "file-prefix"),
      TomlLine("ttl_seconds", 7200), TomlLine("parallel_uploads", 4),
      TomlLine("compression", "zstd"), TomlLine("debug", TRUE)>>
\* test_config_env_override_file
PartialToml == <<TomlLine("bucket", "file-bucket"), TomlLine("region", "eu-west-1")>>
\* test_config_invalid_toml
BadToml == <<TomlLine("bucket", "file-bucket"), JunkLine>>
\* test_config_from_shell_file
ShellText ==
    <<ShellLine("S3_CACHE_BUCKET", "shell-bucket", TRUE),
      ShellLine("S3_CACHE_REGION", "ap-southeast-1", TRUE),
      ShellLine("S3_CACHE_PREFIX", "shell-prefix", TRUE),
      ShellLine("S3_CACHE_TTL", "1800", TRUE),
      ShellLine("S3_CACHE_DEBUG", "true", TRUE)>>
\* legacy settings written without quotes
BareShellText ==
    <<ShellLine("S3_CACHE_BUCKET", "user-bucket", FALSE),
      ShellLine("S3_CACHE_PARALLEL_UPLOADS", "5", FALSE)>>

\* --config and the paths of get_default_config_paths
ProjectToml == ".mise-s3-cache.toml"
ProjectConf == ".mise-s3-cache.conf"
UserToml == "~/.config/mise/s3-cache.toml"
UserConf == "~/.config/mise/s3-cache.conf"
ConfigPaths == {"custom.toml", "custom.conf", ProjectToml, ProjectConf, UserToml, UserConf}
get_default_config_paths == <<ProjectToml, ProjectConf, UserToml, UserConf>>
\* path.extension() == Some("toml")
IsTomlPath(path) == path \in {"custom.toml", ProjectToml, UserToml}

\* what each path can hold when it is there
ContentsAt(path) ==
    CASE path = "custom.toml" -> {FullToml, PartialToml, BadToml, ShellText, BareShellText}
      [] path = "custom.conf" -> {ShellText, BareShellText}
      [] path = ProjectToml -> {FullToml, BadToml}
      [] path = ProjectConf -> {ShellText}
      [] path = UserToml -> {PartialToml}
      [] OTHER -> {BareShellText}

\* the environments a process is started in
Environments ==
    {[name \in {} |-> ""],
     [name \in {"MISE_S3_CACHE_BUCKET"} |-> "env-bucket"],
     [name \in {"MISE_S3_CACHE_BUCKET", "MISE_S3_CACHE_REGION", "MISE_S3_CACHE_PREFIX",
                "MISE_S3_CACHE_TTL", "MISE_S3_CACHE_PARALLEL_UPLOADS",
                "MISE_S3_CACHE_DEBUG", "MISE_S3_CACHE_ENABLED"} |->
         CASE name = "MISE_S3_CACHE_BUCKET" -> "env-bucket"
           [] name = "MISE_S3_CACHE_REGION" -> "us-west-2"
           [] name = "MISE_S3_CACHE_PREFIX" -> "test-prefix"
           [] name = "MISE_S3_CACHE_TTL" -> "3600"
           [] name = "MISE_S3_CACHE_PARALLEL_UPLOADS" -> "5"
           [] name = "MISE_S3_CACHE_DEBUG" -> "TRUE"
           [] OTHER -> "no"],
     [name \in {"MISE_S3_CACHE_TTL", "MISE_S3_CACHE_PARALLEL_UPLOADS"} |->
         IF name = "MISE_S3_CACHE_TTL" THEN "a week" ELSE "-1"]}

\* toml::from_str::<Config>: an error for a line that is not TOML and for a
\* missing field; fields it does not know are passed over
toml_from_str(content) ==
    LET lines == {content[n] : n \in 1..Len(content)}
        well_formed == \A l \in lines :
                          \/ l.form = "toml"
                          \/ l.form = "shell" /\ (l.quoted \/ parse_u64(l.value).ok)
        fields == {l \in lines : l.form = "toml"}
        field(key) == (CHOOSE l \in fields : l.key = key).value
    IN IF well_formed /\ RequiredFields \subseteq {l.key : l \in fields}
       THEN [ok |-> TRUE,
             config |-> [enabled |-> field("enabled"), bucket |-> field("bucket"),
                         region |-> field("region"), prefix |-> field("prefix"),
                         ttl_seconds |-> field("ttl_seconds"),
                         parallel_uploads |-> field("parallel_uploads"),
                         compression |-> field("compression"),
                         debug |-> field("debug"), log_file |-> "None"]]
       ELSE [ok |-> FALSE, config |-> DefaultConfig]

\* a mutant: debug is not taken from the file
merge_with_keeps_debug(self, other) ==
    [self EXCEPT !.bucket = IF other.bucket # "" THEN other.bucket ELSE @,
                 !.region = other.region, !.prefix = other.prefix,
                 !.ttl_seconds = other.ttl_seconds,
                 !.parallel_uploads = other.parallel_uploads,
                 !.compression = other.compression,
                 !.log_file = IF other.log_file # "None" THEN other.log_file ELSE @]

\* Config::merge_with
merge_with(self, other) ==
    [self EXCEPT !.bucket = IF other.bucket # "" THEN other.bucket ELSE @,
                 !.region = other.region, !.prefix = other.prefix,
                 !.ttl_seconds = other.ttl_seconds,
                 !.parallel_uploads = other.parallel_uploads,
                 !.compression = other.compression, !.debug = other.debug,
                 !.log_file = IF other.log_file # "None" THEN other.log_file ELSE @]

\* one KEY=value setting of either the legacy format or the environment
\* (the names differ by the MISE_ in front)
apply_setting(self, key, text) ==
    CASE key = "S3_CACHE_ENABLED" -> [self EXCEPT !.enabled = to_lowercase(text) = "true"]
      [] key = "S3_CACHE_BUCKET" -> [self EXCEPT !.bucket = text]
      [] key = "S3_CACHE_REGION" -> [self EXCEPT !.region = text]
      [] key = "S3_CACHE_PREFIX" -> [self EXCEPT !.prefix = text]
      [] key = "S3_CACHE_TTL" ->
            IF parse_u64(text).ok
            THEN [self EXCEPT !.ttl_seconds = parse_u64(text).value] ELSE self
      [] key = "S3_CACHE_PARALLEL_UPLOADS" ->
            IF parse_u64(text).ok
            THEN [self EXCEPT !.parallel_uploads = parse_u64(text).value] ELSE self
      [] key = "S3_CACHE_DEBUG" -> [self EXCEPT !.debug = to_lowercase(text) = "true"]
      [] OTHER -> self

\* Config::load_shell_config: the lines with a '=' in their order; the value
\* is trimmed of blanks and double quotes
RECURSIVE load_shell_config(_, _)
load_shell_config(self, content) ==
    IF content = <<>> THEN self
    ELSE LET line == Head(content)
             next == IF line.form = "shell"
                     THEN apply_setting(self, line.key, line.value)
                     ELSE self
         IN load_shell_config(next, Tail(content))

\* a mutant: a file that is not TOML is read as KEY=value lines
toml_error_falls_back(self, content) == load_shell_config(self, content)

\* load_from_file, `toml::from_str(..).with_context(..)?`: the error is
\* returned and the configuration is as it was
on_toml_error(self, content) == self

\* Config::load_from_file: [ok, config]
load_from_file(self, path, content) ==
    IF IsTomlPath(path)
    THEN LET parsed == toml_from_str(content)
         IN IF parsed.ok THEN [ok |-> TRUE, config |-> merge_with(self, parsed.config)]
                         ELSE [ok |-> FALSE, config |-> on_toml_error(self, content)]
    ELSE [ok |-> TRUE, config |-> load_shell_config(self, content)]

\* Config::load_from_files over the paths in their order: a file that is
\* there is loaded, its error is a warning
RECURSIVE load_from_files(_, _, _)
load_from_files(self, paths, files) ==
    IF paths = <<>> THEN [config |-> self, warned |-> {}]
    ELSE LET path == Head(paths)
             loaded == load_from_file(self, path, files[path].content)
             rest == load_from_files(IF files[path].exists THEN loaded.config ELSE self,
                                     Tail(paths), files)
         IN [rest EXCEPT !.warned =
                @ \cup (IF files[path].exists /\ ~loaded.ok THEN {path} ELSE {})]

\* the seven `if let Ok(val) = env::var(..)` of load_from_env in their order
apply_env(self, env) ==
    LET set(cfg, key) ==
            IF ("MISE_" \o key) \in DOMAIN env
            THEN apply_setting(cfg, key, env["MISE_" \o key]) ELSE cfg
    IN set(set(set(set(set(set(set(self, "S3_CACHE_ENABLED"), "S3_CACHE_BUCKET"),
           "S3_CACHE_REGION"), "S3_CACHE_PREFIX"), "S3_CACHE_TTL"),
           "S3_CACHE_PARALLEL_UPLOADS"), "S3_CACHE_DEBUG")

\* a mutant: the environment fills in only what no file has set
load_from_env_yields_to_files(self, env) ==
    [f \in DOMAIN self |->
        IF self[f] # DefaultConfig[f] THEN self[f] ELSE apply_env(self, env)[f]]

\* Config::load_from_env (MISE_S3_CACHE_LOG_FILE is in no environment here)
load_from_env(self, env) == apply_env(self, env)

\* Config::validate: TRUE for Ok(())
validate(self) ==
    /\ self.bucket # ""
    /\ is_valid_s3_bucket_name(self.bucket)
    /\ self.region # ""
    /\ ~(contains(chars(self.prefix), "/", "/")
          \/ (chars(self.prefix) # <<>> /\ chars(self.prefix)[1] = "/"))

\* the paths Config::load looks at
config_paths(config_path) ==
    IF config_path = "None" THEN get_default_config_paths ELSE <<config_path>>

\* A process has been started with or without --config, with some of the
\* configuration files present, in one of the environments; Config::load has
\* made the default configuration.  In this specification fs holds the
\* configuration files.
InitConfig ==
    /\ \E config_path \in {"None", "custom.toml", "custom.conf"}, env \in Environments :
          /\ proc = [NoProc EXCEPT !.pc = "start", !.config_path = config_path,
                                   !.env = env]
          /\ \E there \in SUBSET ConfigPaths :
                /\ config_path = "None" => there \subseteq
                                              {ProjectToml, ProjectConf, UserToml, UserConf}
                /\ config_path # "None" => there = {config_path}
                /\ \E held \in [there -> UNION {ContentsAt(p) : p \in ConfigPaths}] :
                      /\ \A p \in there : held[p] \in ContentsAt(p)
                      /\ fs = [p \in ConfigPaths |->
                                 IF p \in there
                                 THEN [exists |-> TRUE, content |-> held[p]]
                                 ELSE [exists |-> FALSE, content |-> <<>>]]
    /\ s3 = [k \in {} |-> 0]
    /\ last_modified = [k \in {} |-> 0]
    /\ stats_file = [state |-> "absent", data |-> DefaultStats]
    /\ inv = [p \in Procs |-> Idle]
    /\ budget = [p \in Procs |-> 0]
    /\ faults = FALSE
    /\ list = NoListing
    /\ retry = NoRetry
    /\ cleanup = NoCleanup
    /\ warm = NoWarm
    /\ config = DefaultConfig

\* Config::load, `config.load_from_files(config_path)?`
LoadFromFiles ==
    /\ proc.pc = "start"
    /\ LET loaded == load_from_files(config, config_paths(proc.config_path), fs)
       IN /\ config' = loaded.config
          /\ proc' = [proc EXCEPT !.pc = "files", !.warned = loaded.warned]
    /\ UNCHANGED <<s3, stats_file, fs, inv, budget, faults, last_modified, cleanup,
                   warm, list, retry>>

\* Config::load, `config.load_from_env()`
LoadFromEnv ==
    /\ proc.pc = "files"
    /\ config' = load_from_env(config, proc.env)
    /\ proc' = [proc EXCEPT !.pc = "env"]
    /\ UNCHANGED <<s3, stats_file, fs, inv, budget, faults, last_modified, cleanup,
                   warm, list, retry>>

\* Config::load, `config.validate()?` and the return
Validate ==
    /\ proc.pc = "env"
    /\ proc' = IF validate(config) THEN [proc EXCEPT !.pc = "loaded"]
                                   ELSE [proc EXCEPT !.pc = "failed",
                                                     !.failure = "config"]
    /\ UNCHANGED <<s3, stats_file, fs, inv, budget, faults, last_modified, cleanup,
                   warm, config, list, retry>>

NextConfig == LoadFromFiles \/ LoadFromEnv \/ Validate

SpecConfig == InitConfig /\ [][NextConfig]_vars

\* ------------------------------------------- Config::load and what follows
\* the bucket names, regions and prefixes the environment can give
BucketTexts ==
    {"", "valid-bucket", "Invalid_Bucket", "ab", "abc",
     "aaaaaaaaaaaaaaaaaaaaaaaaaaaaaaaaaaaaaaaaaaaaaaaaaaaaaaaaaaaaaaa",
     "aaaaaaaaaaaaaaaaaaaaaaaaaaaaaaaaaaaaaaaaaaaaaaaaaaaaaaaaaaaaaaaa",
     "-bucket", "bucket-", "my..bucket", "my.-bucket", "my-.bucket", "my_bucket",
     "my.bucket.1", "192.168.1.1", "1.2.3", "1.2.3.4.5", "1.2.3.x"}
RegionTexts == {"", "us-west-2"}
PrefixTexts == {"", "test-prefix", "/abs", "a//b", "a/b", "a/"}
Unset == "(unset)"

LoadEnvironment(bucket, region, prefix) ==
    LET given == [name \in {"MISE_S3_CACHE_BUCKET", "MISE_S3_CACHE_REGION",
                            "MISE_S3_CACHE_PREFIX"} |->
                    CASE name = "MISE_S3_CACHE_BUCKET" -> bucket
                      [] name = "MISE_S3_CACHE_REGION" -> region
                      [] OTHER -> prefix]
        set == {name \in DOMAIN given : given[name] # Unset}
    IN [name \in set |-> given[name]]

\* A check command has been started without --config; the project's legacy
\* configuration file is there or not, and the environment gives any of the
\* bucket names, regions and prefixes, or none.  The store is empty.
InitLoad ==
    /\ \E bucket \in BucketTexts \cup {Unset}, region \in RegionTexts \cup {Unset},
          prefix \in PrefixTexts \cup {Unset} :
          proc = [NoProc EXCEPT !.pc = "start", !.command = "check",
                                !.env = LoadEnvironment(bucket, region, prefix)]
    /\ \E there \in BOOLEAN :
          fs = [p \in ConfigPaths |->
                  IF there /\ p = ProjectConf
                  THEN [exists |-> TRUE, content |-> ShellText]
                  ELSE [exists |-> FALSE, content |-> <<>>]]
    /\ s3 = [k \in {} |-> 0]
    /\ last_modified = [k \in {} |-> 0]
    /\ stats_file = [state |-> "absent", data |-> DefaultStats]
    /\ inv = [p \in Procs |-> Idle]
    /\ budget = [p \in Procs |-> IF p = "p1" THEN 1 ELSE 0]
    /\ faults = TRUE
    /\ list = NoListing
    /\ retry = NoRetry
    /\ cleanup = NoCleanup
    /\ warm = NoWarm
    /\ config = DefaultConfig

\* main after Config::load returned Ok: the client is made and
\* handle_check_single calls check_cache
LoadedCall ==
    /\ proc.pc = "loaded"
    /\ Invoke("p1", {"check"}, {<<Node, V1>>})

LoadedCheckHead == proc.pc = "loaded" /\ CheckHead("p1")

NextLoad == LoadFromFiles \/ LoadFromEnv \/ Validate \/ LoadedCall \/ LoadedCheckHead

SpecLoad == InitLoad /\ [][NextLoad]_vars

\* ---------------------------------------------------- S3Client::list_objects
\* pages the store may hold for one listing
MaxPages == 3

\* an object of a page: its key, or NoKey for `object.key == None`
NoKey == "None"
PageContents == {<<>>, <<"k1", "k2">>, <<NoKey, "k2", "k3">>}

\* A page of ListObjectsV2: contents (None or the objects), is_truncated and
\* the token that asks for the page after it (0 for None).  A page marked
\* truncated carries its token; the number of the page stands for it.
PagesOf(n) ==
    {pages \in [1..n -> [has_contents : BOOLEAN, contents : PageContents,
                         is_truncated : {"Some(true)", "Some(false)", "None"},
                         next_continuation_token : 0..n]] :
        /\ \A k \in 1..n :
              /\ ~pages[k].has_contents => pages[k].contents = <<>>
              /\ pages[k].next_continuation_token =
                    (IF pages[k].is_truncated = "Some(true)" THEN k ELSE 0)
        /\ pages[n].is_truncated # "Some(true)"}

\* the store's answer to a request: the first page without a token, the page
\* after the one that gave the token with it
list_objects_v2_page(pages, token) == pages[token + 1]

\* a mutant: the token of the response is not kept for the next request
token_is_dropped(response) == 0

\* `continuation_token = response.next_continuation_token`
next_token(response) == response.next_continuation_token

\* `for object in contents { if let Some(key) = object.key { keys.push(key) } }`
RECURSIVE push_keys(_, _)
push_keys(keys, contents) ==
    IF contents = <<>> THEN keys
    ELSE push_keys(IF Head(contents) # NoKey THEN Append(keys, Head(contents)) ELSE keys,
                   Tail(contents))

\* list_objects is called; the store holds one to MaxPages pages for the prefix
InitList ==
    /\ \E n \in 1..MaxPages : \E pages \in PagesOf(n) :
          list = [NoListing EXCEPT !.pc = "request", !.pages = pages]
    /\ s3 = [k \in {} |-> 0]
    /\ last_modified = [k \in {} |-> 0]
    /\ stats_file = [state |-> "absent", data |-> DefaultStats]
    /\ fs = [p \in Paths |-> [exists |-> FALSE, tree |-> EmptyTree]]
    /\ inv = [p \in Procs |-> Idle]
    /\ budget = [p \in Procs |-> 0]
    /\ faults = TRUE
    /\ cleanup = NoCleanup
    /\ warm = NoWarm
    /\ proc = NoProc
    /\ config = DefaultConfig
    /\ retry = NoRetry

\* one turn of the loop: the request with the token kept from the last
\* response, `?` on its failure, the keys of the page pushed, and the test of
\* is_truncated that ends the loop or keeps the token for the next turn
ListRequest ==
    /\ list.pc = "request"
    /\ \E ok \in Outcome :
          LET response == list_objects_v2_page(list.pages, list.continuation_token)
              asked == [list EXCEPT !.requests = @ + 1]
          IN list' =
                IF ~ok THEN [asked EXCEPT !.pc = "done", !.result = "Err"]
                ELSE LET pushed ==
                            [asked EXCEPT !.keys =
                                IF response.has_contents
                                THEN push_keys(@, response.contents) ELSE @]
                     IN IF response.is_truncated = "Some(true)"
                        THEN [pushed EXCEPT !.continuation_token = next_token(response)]
                        ELSE [pushed EXCEPT !.pc = "done", !.result = "Ok"]
    /\ UNCHANGED <<s3, stats_file, fs, inv, budget, faults, last_modified, cleanup, warm,
                   proc, config, retry>>

NextList == ListRequest

\* the loop is not suspended for ever: every request is answered
SpecList == InitList /\ [][NextList]_vars /\ WF_vars(NextList)

\* ------------------------------------------------------ handle_restore_all
\* the invocation a handler starts when it calls an operation of the cache
\* manager with its own arguments
Call(o, t, v, path) ==
    LET r == [Idle EXCEPT !.op = o, !.tool = t, !.version = v,
                          !.install_path = IF o = "check" THEN NoPath ELSE path,
                          !.pre_s3 = s3, !.pre_stats = stats_file, !.pre_fs = fs]
    IN IF validate_tool_version(t, v) THEN [r EXCEPT !.pc = FirstPc(o)]
                                      ELSE Finish(r, "Err", "validate")

\* a mutant: every tool the loop comes to is counted
counts_every_tool(result) == TRUE

\* `if let Ok(_) = cache_manager.restore_from_cache(..).await`
counts_as_restored(result) == result \in {"Ok(true)", "Ok(false)"}

\* The project declares its tools, any of them may be in the store, nothing
\* is installed, and restore --all has been given, selective or not, in hook
\* mode or not.
InitRestoreAll ==
    /\ \E held \in SUBSET {<<Node, V1>>, <<Go, V1>>} :
          LET keys == {object_key(o, e[1], e[2]) : o \in uploads_joined, e \in held}
              owner(k) == CHOOSE e \in held :
                             \E o \in uploads_joined : object_key(o, e[1], e[2]) = k
              object(k) == CHOOSE o \in uploads_joined :
                              object_key(o, owner(k)[1], owner(k)[2]) = k
          IN /\ s3 = [k \in keys |->
                        StoredEntry(owner(k)[1], owner(k)[2],
                                    InstalledTree(owner(k)[1]))[object(k)]]
             /\ last_modified = [k \in keys |-> Now - SecondsPerDay]
    /\ stats_file = [state |-> "absent", data |-> DefaultStats]
    /\ fs = [p \in Paths |-> [exists |-> FALSE, tree |-> EmptyTree]]
    /\ inv = [p \in Procs |-> Idle]
    /\ budget = [p \in Procs |-> 0]
    /\ faults = TRUE
    /\ list = NoListing
    /\ retry = NoRetry
    /\ cleanup = NoCleanup
    /\ warm = NoWarm
    /\ \E selective \in BOOLEAN, hook_mode \in BOOLEAN :
          proc = [NoProc EXCEPT !.pc = "tools", !.command = "restore",
                                !.selective = selective, !.hook_mode = hook_mode]
    /\ config = DefaultConfig

\* `let tools = cache_manager.get_project_tools().await?`
RestoreAllTools ==
    /\ proc.pc = "tools"
    /\ \E ok \in Outcome, project \in Projects :
          \E order \in Orders(project) :
             proc' = IF ok THEN [proc EXCEPT !.pc = "next", !.tools = order, !.i = 1]
                          ELSE [proc EXCEPT !.pc = "done", !.result = "Err"]
    /\ UNCHANGED <<s3, stats_file, fs, inv, budget, faults, last_modified, cleanup,
                   warm, config, list, retry>>

\* the top of `for (tool, version) in &tools`: in selective mode check_cache is
\* called, otherwise restore_from_cache; after the last tool the count is
\* printed unless in hook mode and Ok(()) is returned
RestoreAllNext ==
    /\ proc.pc = "next"
    /\ IF proc.i > Len(proc.tools)
       THEN /\ proc' = [proc EXCEPT !.pc = "done", !.result = "Ok",
                                    !.printed_count =
                                        IF proc.hook_mode THEN @ ELSE proc.restored_count]
            /\ UNCHANGED inv
       ELSE LET tool == proc.tools[proc.i]
            IN IF proc.selective
               THEN /\ proc' = [proc EXCEPT !.pc = "check"]
                    /\ inv' = [inv EXCEPT !["p1"] = Call("check", tool[1], tool[2], NoPath)]
               ELSE /\ proc' = [proc EXCEPT !.pc = "restore"]
                    /\ inv' = [inv EXCEPT !["p1"] =
                                 Call("restore", tool[1], tool[2], InstallDir(tool[1]))]
    /\ UNCHANGED <<s3, stats_file, fs, budget, faults, last_modified, cleanup, warm,
                   config, list, retry>>

\* `if selective && !cache_manager.check_cache(tool, version).await? { continue; }`
RestoreAllChecked ==
    /\ proc.pc = "check" /\ inv["p1"].op = "check" /\ inv["p1"].pc = "done"
    /\ LET tool == proc.tools[proc.i]
       IN CASE inv["p1"].result = "Err" ->
                  /\ proc' = [proc EXCEPT !.pc = "done", !.result = "Err"]
                  /\ UNCHANGED inv
            [] inv["p1"].result = "Ok(false)" ->
                  /\ proc' = [proc EXCEPT !.pc = "next", !.i = @ + 1]
                  /\ UNCHANGED inv
            [] OTHER ->
                  /\ proc' = [proc EXCEPT !.pc = "restore"]
                  /\ inv' = [inv EXCEPT !["p1"] =
                               Call("restore", tool[1], tool[2], InstallDir(tool[1]))]
    /\ UNCHANGED <<s3, stats_file, fs, budget, faults, last_modified, cleanup, warm,
                   config, list, retry>>

\* restore_from_cache has returned: the count and the line printed for the
\* tool, and on to the next tool
RestoreAllRestored ==
    /\ proc.pc = "restore" /\ inv["p1"].op = "restore" /\ inv["p1"].pc = "done"
    /\ LET tool == proc.tools[proc.i]
           result == inv["p1"].result
           seen == [proc EXCEPT !.pc = "next", !.i = @ + 1,
                                !.returned = Append(@, <<tool, result>>)]
       IN proc' = IF counts_as_restored(result)
                  THEN [seen EXCEPT !.restored_count = @ + 1,
                                    !.printed = IF proc.hook_mode THEN @
                                                ELSE Append(@, tool)]
                  ELSE seen
    /\ UNCHANGED <<s3, stats_file, fs, inv, budget, faults, last_modified, cleanup,
                   warm, config, list, retry>>

NextRestoreAll ==
    \/ RestoreAllTools
    \/ RestoreAllNext
    \/ RestoreAllChecked
    \/ RestoreAllRestored
    \/ CheckHead("p1")
    \/ RestoreHead("p1")
    \/ RestoreDownload("p1")
    \/ RestoreVerify("p1")
    \/ RestoreExtract("p1")
    \/ StatsLoad("p1")
    \/ StatsSave("p1")

SpecRestoreAll == InitRestoreAll /\ [][NextRestoreAll]_vars

\* ------------------------------------------- the protocol under any ttl_seconds
\* ttl_seconds as configured: an hour, the default week
TtlInputs == {3600, DefaultTtlSeconds}

\* The store holds the three entries written 1, 10 and 30 days ago and the
\* object outside the tools prefix; the cache manager has been made with a
\* Config of any of the ttl_seconds.
InitTtl ==
    LET keys == {object_key(o, e.tool, e.version) :
                    o \in uploads_joined, e \in StoredEntries}
    IN /\ s3 = [k \in keys \cup {report_key} |->
                  IF k = report_key THEN EmptyArchive
                  ELSE StoredEntry(EntryOf(k).tool, EntryOf(k).version, TreeA)[ObjectOf(k)]]
       /\ last_modified = [k \in keys \cup {report_key} |->
                  Now - SecondsPerDay * (IF k = report_key THEN 30 ELSE EntryOf(k).age)]
       /\ stats_file = [state |-> "absent", data |-> DefaultStats]
       /\ fs = [p \in Paths |->
                  IF p = "/opt/node" THEN [exists |-> TRUE, tree |-> TreeA]
                                     ELSE [exists |-> FALSE, tree |-> EmptyTree]]
       /\ inv = [p \in Procs |-> Idle]
       /\ budget = [p \in Procs |-> IF p = "p1" THEN 1 ELSE 0]
       /\ faults = TRUE
       /\ list = NoListing
       /\ retry = NoRetry
       /\ cleanup = NoCleanup
       /\ warm = NoWarm
       /\ proc = NoProc
       /\ \E ttl_seconds \in TtlInputs :
             config = [DefaultConfig EXCEPT !.ttl_seconds = ttl_seconds]

\* a process checks, restores or stores node 1.0 after the cleanup
TtlUse(p) ==
    /\ cleanup.pc = "done"
    /\ Invoke(p, Ops, {<<Node, V1>>})

NextTtl ==
    \/ CleanupStart
    \/ CleanupList
    \/ CleanupObject
    \/ \E p \in Procs : TtlUse(p)
    \/ \E p \in Procs : CheckHead(p)
    \/ \E p \in Procs : RestoreHead(p)
    \/ \E p \in Procs : RestoreDownload(p)
    \/ \E p \in Procs : RestoreVerify(p)
    \/ \E p \in Procs : RestoreExtract(p)
    \/ \E p \in Procs : StatsLoad(p)
    \/ \E p \in Procs : StatsSave(p)
    \/ \E p \in Procs : StorePrepare(p)
    \/ \E p \in Procs : StoreUpload(p)

SpecTtl == InitTtl /\ [][NextTtl]_vars

\* --------------------------------------------------------- retry_with_backoff
\* the largest max_attempts tried
MaxAttempts == 3

\* the width of u64
U64Bits == 64

\* A number of milliseconds is written m * 2^e, so that delays up to the
\* width of u64 and beyond can be told apart.
Ms(m, e) == [m |-> m, e |-> e]

\* initial_delay_ms: none, 100 ms, 2^62 ms, 2^63 ms
DelayInputs == {Ms(0, 0), Ms(100, 0), Ms(1, 62), Ms(1, 63)}

\* what the operation gives at each of its calls: a value, or an error that
\* tells which call it came from
CallOutcomes(n) == [1..n -> {"Ok", "Err"}]

RECURSIVE BitLen(_)
BitLen(m) == IF m = 0 THEN 0 ELSE 1 + BitLen(m \div 2)

\* the number fits in a u64
fits_u64(d) == d.m = 0 \/ BitLen(d.m) + d.e <= U64Bits

\* the low 64 bits of the number
wrap_u64(d) ==
    IF fits_u64(d) THEN d
    ELSE IF d.e >= U64Bits THEN Ms(0, 0)
    ELSE Ms(d.m % (2 ^ (U64Bits - d.e)), d.e)

\* a mutant: the delay stays what it was
delay_stays(delay) == delay

\* delay *= 2
doubled(delay) == Ms(delay.m, delay.e + 1)

\* retry_with_backoff(operation, max_attempts, initial_delay_ms) is called
InitRetry ==
    /\ s3 = << >>
    /\ last_modified = << >>
    /\ stats_file = [state |-> "absent", data |-> DefaultStats]
    /\ fs = [p \in Paths |-> [exists |-> FALSE, tree |-> EmptyTree]]
    /\ inv = [p \in Procs |-> Idle]
    /\ budget = [p \in Procs |-> 0]
    /\ faults = FALSE
    /\ list = NoListing
    /\ cleanup = NoCleanup
    /\ warm = NoWarm
    /\ proc = NoProc
    /\ config = DefaultConfig
    /\ \E max_attempts \in 0..MaxAttempts, initial_delay_ms \in DelayInputs :
          \E outcomes \in CallOutcomes(max_attempts) :
             retry = [NoRetry EXCEPT !.pc = "loop",
                                     !.max_attempts = max_attempts,
                                     !.initial_delay_ms = initial_delay_ms,
                                     !.outcomes = outcomes,
                                     !.delay = initial_delay_ms]

\* one turn of the loop up to its return or its sleep: operation().await and
\* the match on what it gave
RetryAttempt ==
    /\ retry.pc = "loop"
    /\ retry.attempt < retry.max_attempts
    /\ LET attempt == retry.attempt + 1
           r == [retry EXCEPT !.attempt = attempt, !.calls = @ + 1]
       IN retry' =
            IF retry.outcomes[attempt] = "Ok"
            THEN [r EXCEPT !.pc = "done", !.result = <<"Ok", attempt>>]
            ELSE IF attempt = retry.max_attempts
            THEN [r EXCEPT !.pc = "done", !.result = <<"Err", attempt>>]
            ELSE [r EXCEPT !.pc = "sleep"]
    /\ UNCHANGED <<s3, stats_file, fs, inv, budget, faults, last_modified, cleanup,
                   warm, proc, config, list>>

\* the sleep and delay *= 2; a product beyond u64 panics where overflow is
\* checked and keeps its low 64 bits where it is not
RetrySleep ==
    /\ retry.pc = "sleep"
    /\ LET r == [retry EXCEPT !.slept = Append(@, retry.delay)]
           product == doubled(retry.delay)
       IN \E overflow_checks \in BOOLEAN :
             retry' =
               IF fits_u64(product)
               THEN [r EXCEPT !.pc = "loop", !.delay = product]
               ELSE IF overflow_checks
               THEN [r EXCEPT !.pc = "panicked", !.result = <<"panic: overflow", 0>>]
               ELSE [r EXCEPT !.pc = "loop", !.delay = wrap_u64(product)]
    /\ UNCHANGED <<s3, stats_file, fs, inv, budget, faults, last_modified, cleanup,
                   warm, proc, config, list>>

\* the loop has ended without a return: unreachable!()
RetryUnreachable ==
    /\ retry.pc = "loop"
    /\ retry.attempt >= retry.max_attempts
    /\ retry' = [retry EXCEPT !.pc = "panicked", !.result = <<"panic: unreachable", 0>>]
    /\ UNCHANGED <<s3, stats_file, fs, inv, budget, faults, last_modified, cleanup,
                   warm, proc, config, list>>

NextRetry == RetryAttempt \/ RetrySleep \/ RetryUnreachable

SpecRetry == InitRetry /\ [][NextRetry]_vars /\ WF_vars(NextRetry)

\* ================================================================== claims
\* The vocabulary of the claims, spelled out from the specification and not
\* through the operators that model the code.
ValidInput(t, v) ==
    /\ Len(t) \in 1..100 /\ \A i \in 1..Len(t) : t[i] \in ToolNameChars
    /\ Len(v) \in 1..50 /\ \A i \in 1..Len(v) : v[i] \in VersionChars

\* prefix/tools/tool/version/platform-arch/file
KeyOf(t, v, file) ==
    Prefix \o <<"/","t","o","o","l","s","/">> \o t \o <<"/">> \o v \o <<"/">>
           \o get_platform \o <<"-">> \o get_architecture \o <<"/">> \o file
ArchiveFile == <<"a","r","c","h","i","v","e",".","t","a","r",".","g","z">>
MetadataFile == <<"m","e","t","a","d","a","t","a",".","j","s","o","n">>
ChecksumFile == <<"c","h","e","c","k","s","u","m",".","s","h","a","2","5","6">>

Changed(p) == inv'[p] # inv[p]
Done(p, o) == inv[p].op = o /\ inv[p].pc = "done"

\* C1: for check_cache, restore_from_cache and store_in_cache alike, a tool
\* name or a version that fails validation makes the operation return an error
\* in its first step, with no remote call issued and with the remote store, the
\* statistics file and the install paths left as they were.
C1_InvalidInputFailsFirst ==
    [][\A p \in Procs :
          (Changed(p) /\ inv'[p].op \in Ops
                      /\ ~ValidInput(inv'[p].tool, inv'[p].version))
          => /\ inv'[p].pc = "done"
             /\ inv'[p].result = "Err"
             /\ inv'[p].calls = <<>>
             /\ s3' = s3 /\ stats_file' = stats_file /\ fs' = fs]_vars

\* an over-long tool name was refused to restore_from_cache
C1_Witness ==
    \E p \in Procs :
       /\ Done(p, "restore") /\ inv[p].result = "Err"
       /\ Len(inv[p].tool) > 100
       /\ inv[p].calls = <<>>

\* C2: check_cache on a valid (tool, version) returns true exactly when the
\* metadata object exists under the derived key, whatever the archive and the
\* checksum; not-found is false, not an error; only a failure of the query
\* itself is an error; and nothing is written, remotely or to the statistics.
C2_CheckIsMetadataExistence ==
    [][\A p \in Procs :
          (inv[p].op = "check" /\ Changed(p) /\ inv[p].pc # "done"
                               /\ ValidInput(inv[p].tool, inv[p].version))
          => LET k == KeyOf(inv[p].tool, inv[p].version, MetadataFile)
                 q == inv'[p]
             IN /\ q.pc = "done"
                /\ q.calls = <<<<"HEAD", k>>>>
                /\ q.head \in {"200", "404"} =>
                      q.result = IF k \in DOMAIN s3 THEN "Ok(true)" ELSE "Ok(false)"
                /\ q.head \notin {"200", "404"} <=> q.result = "Err"
                /\ s3' = s3 /\ stats_file' = stats_file /\ fs' = fs]_vars

\* check_cache answered true for an entry that has its metadata object and no
\* archive
C2_Witness ==
    \E p \in Procs :
       /\ Done(p, "check") /\ inv[p].result = "Ok(true)"
       /\ KeyOf(inv[p].tool, inv[p].version, MetadataFile) \in DOMAIN s3
       /\ KeyOf(inv[p].tool, inv[p].version, ArchiveFile) \notin DOMAIN s3

\* The aggregate a statistics file holds: nothing when it is absent or does
\* not parse.
Held(file) ==
    IF file.state = "ok" THEN file.data
    ELSE [cache_hits |-> 0, cache_misses |-> 0, total_downloads |-> 0,
          total_savings_bytes |-> 0, tools |-> [k \in {} |-> 0]]
HeldFor(stats, k, field) ==
    IF k \in DOMAIN stats.tools THEN stats.tools[k][field] ELSE 0

\* The statistics file now holds what it held when p's invocation began, plus
\* exactly one outcome of p's (tool, version): a hit or a miss.
Recorded(p, hit) ==
    LET old == Held(inv[p].pre_stats)
        new == stats_file.data
        k == inv[p].tool \o <<"@">> \o inv[p].version
        h == IF hit THEN 1 ELSE 0
    IN /\ stats_file.state = "ok"
       /\ new.total_downloads = old.total_downloads + 1
       /\ new.cache_hits = old.cache_hits + h
       /\ new.cache_misses = old.cache_misses + (1 - h)
       /\ DOMAIN new.tools = DOMAIN old.tools \cup {k}
       /\ new.tools[k].cache_hits = HeldFor(old, k, "cache_hits") + h
       /\ new.tools[k].cache_misses = HeldFor(old, k, "cache_misses") + (1 - h)
       /\ \A kk \in DOMAIN old.tools \ {k} : new.tools[kk] = old.tools[kk]

\* The entry of (t, v) in a store has its three objects, its checksum object
\* is the text store_in_cache wrote, and its archive no longer has that digest.
Tampered(store, t, v) ==
    LET a == KeyOf(t, v, ArchiveFile)
        c == KeyOf(t, v, ChecksumFile)
    IN /\ {a, c, KeyOf(t, v, MetadataFile)} \subseteq DOMAIN store
       /\ store[c].utf8 /\ ~store[c].ws
       /\ store[c].hex # calculate_file_hash(store[a])

\* p runs, or has run, restore_from_cache on an entry that was tampered with
\* before it began and has not changed since.
RestoresTampered(p) ==
    /\ inv[p].op = "restore"
    /\ ValidInput(inv[p].tool, inv[p].version)
    /\ Tampered(inv[p].pre_s3, inv[p].tool, inv[p].version)
    /\ s3 = inv[p].pre_s3

\* C3, as claimed: on a tampered entry every restore_from_cache that reaches a
\* verdict returns false, records a miss, and neither unpacks the archive nor
\* touches the install path.  (An invocation that ends in an error reached no
\* verdict and is not held against the claim.)
C3_Original ==
    \A p \in Procs :
       (RestoresTampered(p) /\ inv[p].pc = "done" /\ inv[p].result # "Err")
       => /\ inv[p].result = "Ok(false)"
          /\ Recorded(p, FALSE)
          /\ "unpack" \notin inv[p].fx
          /\ fs = inv[p].pre_fs

\* C3, amended: on a tampered entry a restore_from_cache that retrieves the
\* checksum object never reaches the extraction step, leaves the install path
\* as it was and never returns true: it returns false with one checksum_mismatch
\* miss recorded, or an error when hashing the download or updating the
\* statistics file fails.
C3_TamperDetectedWhenChecksumRead ==
    \A p \in Procs :
       (RestoresTampered(p) /\ inv[p].cks = "ok")
       => /\ inv[p].pc # "extract"
          /\ "unpack" \notin inv[p].fx
          /\ fs = inv[p].pre_fs
          /\ inv[p].result # "Ok(true)"
          /\ inv[p].pc = "done" =>
                \/ /\ inv[p].result = "Ok(false)"
                   /\ inv[p].status = "checksum_mismatch"
                   /\ Recorded(p, FALSE)
                \/ /\ inv[p].result = "Err"
                   /\ inv[p].err \in {"local_io", "stats_io"}

\* a tampered archive was downloaded, its checksum was read, and the restore
\* ended false
C3_Witness ==
    \E p \in Procs :
       /\ RestoresTampered(p) /\ inv[p].cks = "ok"
       /\ inv[p].downloaded /\ ~IsPristine(inv[p].temp_archive)
       /\ inv[p].pc = "done" /\ inv[p].result = "Ok(false)"

\* How a fetch of the checksum object ends when no checksum text is obtained.
Unreadable == {"absent", "transport", "not_text"}

\* p's restore_from_cache found the metadata object, downloaded the archive
\* and could not retrieve the checksum object.
ChecksumNotRetrieved(q) ==
    /\ q.op = "restore" /\ ValidInput(q.tool, q.version)
    /\ q.head = "200" /\ q.downloaded /\ q.cks \in Unreadable

MetadataAbsent(p) ==
    /\ inv[p].op = "restore" /\ ValidInput(inv[p].tool, inv[p].version)
    /\ inv[p].head = "404"

ArchiveDownloadFailed(p) ==
    /\ inv[p].op = "restore" /\ ValidInput(inv[p].tool, inv[p].version)
    /\ inv[p].head = "200" /\ Len(inv[p].calls) >= 2 /\ ~inv[p].downloaded

\* the two remote calls of a restore that stops at the archive download
HeadThenArchive(p) ==
    <<<<"HEAD", KeyOf(inv[p].tool, inv[p].version, MetadataFile)>>,
      <<"GET", KeyOf(inv[p].tool, inv[p].version, ArchiveFile)>>>>

C7_TrueOnlyAfterFullRestore ==
    \A p \in Procs :
       (inv[p].op = "restore" /\ "Ok(true)" \in {inv[p].result, inv[p].ret})
       => /\ ValidInput(inv[p].tool, inv[p].version)
          /\ inv[p].head = "200"
          /\ inv[p].downloaded
          /\ inv[p].status = "success"
          /\ inv[p].cks = "ok" =>
                Trim(inv[p].expected_checksum) = Text(calculate_file_hash(inv[p].temp_archive))
          /\ {"create_dir_all", "unpack", "unpacked"} \subseteq inv[p].fx
          /\ inv[p].temp_archive.trailer = "ok"
          /\ fs[inv[p].install_path].exists
          /\ \A i \in 1..Len(inv[p].temp_archive.entries) :
                LET e == inv[p].temp_archive.entries[i]
                IN fs[inv[p].install_path].tree[e[1]] = e[2]

\* a restore into a path that did not exist returned true with the checksum
\* verified and the tree in place
C7_Witness ==
    \E p \in Procs :
       /\ Done(p, "restore") /\ inv[p].result = "Ok(true)"
       /\ inv[p].cks = "ok" /\ inv[p].install_path = "/new"
       /\ ~inv[p].pre_fs["/new"].exists
       /\ fs["/new"].tree = TreeA

\* the five outcome branches of restore_from_cache
Outcomes ==
    {"not_found", "download_failed", "checksum_mismatch", "extraction_failed",
     "success"}

\* C8: a restore_from_cache that passes validation and returns through one of
\* its outcome branches has updated the statistics file exactly once:
\* total_downloads is one more than when it began, and exactly one of
\* cache_hits (true returned) and cache_misses (false returned) is one more,
\* globally and in the tool@version entry.
C8_OneStatsUpdatePerOutcome ==
    \A p \in Procs :
       (Done(p, "restore") /\ ValidInput(inv[p].tool, inv[p].version)
                           /\ inv[p].result # "Err")
       => /\ inv[p].status \in Outcomes
          /\ inv[p].result \in {"Ok(true)", "Ok(false)"}
          /\ inv[p].result = "Ok(true)" <=> inv[p].status = "success"
          /\ Recorded(p, inv[p].result = "Ok(true)")

\* a hit was recorded for a tool@version that had a miss on record
C8_Witness ==
    \E p \in Procs :
       /\ Done(p, "restore") /\ inv[p].result = "Ok(true)"
       /\ Recorded(p, TRUE)
       /\ HeldFor(Held(inv[p].pre_stats),
                  inv[p].tool \o <<"@">> \o inv[p].version, "cache_misses") = 1
       /\ stats_file.data.total_downloads = 2

\* the file name of each object of an entry
FileOf(obj) ==
    CASE obj = "archive" -> ArchiveFile
      [] obj = "metadata" -> MetadataFile
      [] OTHER -> ChecksumFile

\* C9: store_in_cache has the archive, metadata and checksum uploads started
\* before any of them ends; a failed upload makes it return an error; and
\* when it returns Ok for a declared tool, each of the three uploads of that
\* call succeeded and the three objects hold what the call built.
C9_AllThreeOrError ==
    [][\A p \in Procs :
          (Changed(p) /\ inv'[p].op = "store" /\ inv[p].pc \in {"prepare", "upload"})
          => LET q == inv'[p]
             IN /\ (q.pc = "upload" \/ q.uploaded \cup q.failed # {})
                      => q.calls = <<<<"PUT", KeyOf(q.tool, q.version, ArchiveFile)>>,
                                     <<"PUT", KeyOf(q.tool, q.version, MetadataFile)>>,
                                     <<"PUT", KeyOf(q.tool, q.version, ChecksumFile)>>>>
                /\ q.failed # {} => (q.pc = "done" /\ q.result = "Err")
                /\ (q.result = "Ok(())" /\ <<q.tool, q.version>> \in Manifest)
                      => /\ q.uploaded = Objects /\ q.failed = {}
                         /\ \A obj \in Objects :
                               LET k == KeyOf(q.tool, q.version, FileOf(obj))
                               IN k \in DOMAIN s3' /\ s3'[k] = q.staged[obj]]_vars

\* a store of a declared tool returned Ok with the three objects in place
C9_Witness ==
    \E p \in Procs :
       /\ Done(p, "store") /\ inv[p].result = "Ok(())"
       /\ <<inv[p].tool, inv[p].version>> \in Manifest
       /\ inv[p].uploaded = Objects
       /\ \A obj \in Objects :
             KeyOf(inv[p].tool, inv[p].version, FileOf(obj)) \in DOMAIN s3

\* The entry of (t, v) in a store has its metadata object and no archive.
MetadataWithoutArchive(store, t, v) ==
    /\ KeyOf(t, v, MetadataFile) \in DOMAIN store
    /\ KeyOf(t, v, ArchiveFile) \notin DOMAIN store

\* C10: a step of store_in_cache's uploads, failed ones included, removes no
\* object and leaves what the call had uploaded in place; and on an entry that
\* has its metadata object without its archive, check_cache returns true when
\* its query is answered, while restore_from_cache never returns true and
\* returns false unless it ends in an error.
C10_NoRollback ==
    [][\A p \in Procs :
          Changed(p)
          => LET r == inv[p]
                 q == inv'[p]
             IN /\ (r.op = "store" /\ r.pc = "upload")
                      => /\ DOMAIN s3 \subseteq DOMAIN s3'
                         /\ \A obj \in r.uploaded :
                               LET k == KeyOf(r.tool, r.version, FileOf(obj))
                               IN k \in DOMAIN s3' /\ s3'[k] = r.staged[obj]
                /\ (q.pc = "done" /\ q.op \in {"check", "restore"}
                                  /\ ValidInput(q.tool, q.version)
                                  /\ MetadataWithoutArchive(s3, q.tool, q.version)
                                  /\ q.pre_s3 = s3)
                      => /\ (q.op = "check" /\ q.head = "200") => q.result = "Ok(true)"
                         /\ q.op = "check" => q.result \in {"Ok(true)", "Err"}
                         /\ q.op = "restore" => q.result \in {"Ok(false)", "Err"}
                         /\ (q.op = "restore" /\ q.err = "none")
                               => (q.result = "Ok(false)" /\ ~q.downloaded)]_vars

\* after a store whose archive upload failed, the metadata object is there
\* without the archive and a restore of the entry returned false
C10_Witness ==
    \E p \in Procs :
       /\ Done(p, "restore") /\ inv[p].result = "Ok(false)"
       /\ inv[p].status = "download_failed"
       /\ MetadataWithoutArchive(s3, inv[p].tool, inv[p].version)
       /\ inv[p].pre_s3 = s3

Complete(store, t, v) ==
    {KeyOf(t, v, ArchiveFile), KeyOf(t, v, MetadataFile), KeyOf(t, v, ChecksumFile)}
        \subseteq DOMAIN store

\* The checksum object of the entry is not the digest of its archive: the two
\* were written by different calls.
ChecksumOfOtherWrite(store, t, v) ==
    store[KeyOf(t, v, ChecksumFile)].hex
        # calculate_file_hash(store[KeyOf(t, v, ArchiveFile)])

\* The metadata object of the entry describes another archive than the one
\* stored with it.
MetadataOfOtherWrite(store, t, v) ==
    store[KeyOf(t, v, MetadataFile)].checksum
        # calculate_file_hash(store[KeyOf(t, v, ArchiveFile)])

\* p's restore_from_cache ran on a complete entry that no one changed
\* meanwhile.
RestoredUndisturbed(p) ==
    /\ Done(p, "restore")
    /\ inv[p].pre_s3 = s3
    /\ Complete(s3, inv[p].tool, inv[p].version)

\* Every store_in_cache that was started has returned Ok.
StoresReturnedOk ==
    \A q \in Procs :
       inv[q].op = "store" => (inv[q].pc = "done" /\ inv[q].result = "Ok(())")

Represents(bytes, tree) ==
    /\ bytes.trailer = "ok"
    /\ Len(bytes.entries) = Cardinality(DOMAIN tree)
    /\ \A f \in DOMAIN tree :
          \E i \in 1..Len(bytes.entries) : bytes.entries[i] = <<f, tree[f]>>

\* C13: store_in_cache starts its uploads only with valid arguments, an
\* existing install path and a declared (tool, version), and with the archive
\* of the install tree and its digest built; until then it changes nothing in
\* the remote store, and a missing install path or a packing failure ends it
\* in an error with no upload issued.
C13_UploadOnlyAfterLocalWork ==
    [][\A p \in Procs :
          (Changed(p) /\ inv[p].op = "store")
          => LET r == inv[p]
                 q == inv'[p]
                 dir == fs[r.install_path]
             IN /\ s3' # s3 => r.pc = "upload"
                /\ r.pc = "prepare" =>
                      /\ (q.pc = "upload" \/ q.calls # <<>>)
                            => /\ ValidInput(r.tool, r.version)
                               /\ dir.exists
                               /\ <<r.tool, r.version>> \in Manifest
                               /\ Represents(q.staged.archive, dir.tree)
                               /\ q.staged.checksum.hex
                                     = calculate_file_hash(q.staged.archive)
                      /\ (~dir.exists \/ q.err = "pack")
                            => /\ q.pc = "done" /\ q.result = "Err"
                               /\ q.calls = <<>>]_vars

\* a store from an install path that does not exist ended in an error with no
\* upload and the entry in the remote store as it was
C13_Witness ==
    \E p \in Procs :
       /\ Done(p, "store") /\ inv[p].result = "Err"
       /\ ValidInput(inv[p].tool, inv[p].version)
       /\ <<inv[p].tool, inv[p].version>> \in Manifest
       /\ ~fs[inv[p].install_path].exists
       /\ inv[p].calls = <<>> /\ s3 = inv[p].pre_s3

\* p's store_in_cache has valid arguments and an existing install path, and
\* the manifest does not declare its (tool, version).
StoresUndeclared(q, dirs) ==
    /\ q.op = "store" /\ ValidInput(q.tool, q.version)
    /\ dirs[q.install_path].exists
    /\ <<q.tool, q.version>> \notin Manifest

\* C14: a store_in_cache of a valid (tool, version) that the manifest does not
\* declare, from an existing install path, ends in its first step; it returns
\* Ok whenever the manifest could be consulted (an error only when that
\* failed), issues no upload, and leaves the remote store and the statistics
\* file unchanged.
C14_UndeclaredToolIsSkipped ==
    [][\A p \in Procs :
          (Changed(p) /\ inv[p].pc = "prepare" /\ StoresUndeclared(inv[p], fs))
          => LET q == inv'[p]
             IN /\ q.pc = "done"
                /\ q.result = "Ok(())" \/ (q.result = "Err" /\ q.err = "manifest_io")
                /\ q.calls = <<>> /\ q.pending = {}
                /\ s3' = s3 /\ stats_file' = stats_file /\ fs' = fs]_vars

\* a store of an undeclared tool returned Ok with nothing uploaded
C14_Witness ==
    \E p \in Procs :
       /\ inv[p].pc = "done" /\ StoresUndeclared(inv[p], inv[p].pre_fs)
       /\ inv[p].result = "Ok(())"
       /\ inv[p].calls = <<>> /\ s3 = inv[p].pre_s3
       /\ stats_file = inv[p].pre_stats

\* The entry of (t, v) is as one store_in_cache leaves it: three objects, a
\* whole archive, and a checksum object and a metadata object that carry the
\* digest of that archive.
Intact(store, t, v) ==
    /\ Complete(store, t, v)
    /\ store[KeyOf(t, v, ArchiveFile)].trailer = "ok"
    /\ store[KeyOf(t, v, MetadataFile)].checksum
          = calculate_file_hash(store[KeyOf(t, v, ArchiveFile)])
    /\ store[KeyOf(t, v, ChecksumFile)]
          = [utf8 |-> TRUE, ws |-> FALSE,
             hex |-> calculate_file_hash(store[KeyOf(t, v, ArchiveFile)])]

\* C15: the step in which a store_in_cache of a declared (tool, version)
\* returns Ok leaves an entry whose archive holds exactly the install tree and
\* whose checksum object is the digest of that archive.  On such an entry,
\* with no other writer, check_cache returns true whenever its query is
\* answered; restore_from_cache never reports not_found or a checksum
\* mismatch and returns true unless a download, local I/O or the statistics
\* update fails; and a restore that returns true into a path that did not
\* exist leaves there exactly the files of the archive.
C15_RoundTrip ==
    [][\A p \in Procs :
          (Changed(p) /\ inv[p].pc \notin {"idle", "done"} /\ inv'[p].pc = "done"
                      /\ ValidInput(inv[p].tool, inv[p].version))
          => LET r == inv[p]
                 q == inv'[p]
                 a == KeyOf(r.tool, r.version, ArchiveFile)
             IN /\ (r.op = "store" /\ q.result = "Ok(())"
                                   /\ <<r.tool, r.version>> \in Manifest)
                      => /\ Intact(s3', r.tool, r.version)
                         /\ Represents(s3'[a], fs[r.install_path].tree)
                /\ (r.op = "check" /\ Intact(s3, r.tool, r.version))
                      => (q.head \in {"200", "404"} => q.result = "Ok(true)")
                /\ (r.op = "restore" /\ Intact(s3, r.tool, r.version) /\ r.pre_s3 = s3)
                      => /\ \/ q.result = "Ok(true)"
                            \/ /\ q.result = "Ok(false)"
                               /\ q.status \in {"download_failed", "extraction_failed"}
                            \/ /\ q.result = "Err"
                               /\ q.err \in {"transport", "local_io", "stats_io"}
                         /\ (q.downloaded /\ "unpacked" \in q.fx /\ q.err = "none")
                               => q.result = "Ok(true)"
                         /\ (q.result = "Ok(true)" /\ ~r.pre_fs[r.install_path].exists)
                               => Represents(s3[a], fs'[r.install_path].tree)]_vars

\* after a store of the install tree, a restore into a path that did not exist
\* verified the checksum, returned true and left exactly the stored files
C15_Witness ==
    \E p \in Procs :
       /\ Done(p, "restore") /\ inv[p].result = "Ok(true)" /\ inv[p].cks = "ok"
       /\ Intact(s3, inv[p].tool, inv[p].version) /\ inv[p].pre_s3 = s3
       /\ ~inv[p].pre_fs[inv[p].install_path].exists
       /\ Represents(s3[KeyOf(inv[p].tool, inv[p].version, ArchiveFile)],
                     fs[inv[p].install_path].tree)
       /\ fs[inv[p].install_path].tree = fs["/opt/node"].tree

\* The store the invocation r found held the entry a store of the same
\* (tool, version, install tree) leaves.
SameAsStored(r, dirs) ==
    /\ Intact(r.pre_s3, r.tool, r.version)
    /\ Represents(r.pre_s3[KeyOf(r.tool, r.version, ArchiveFile)],
                  dirs[r.install_path].tree)

\* C16: when store_in_cache runs over the entry an earlier store of the same
\* (tool, version, install tree) left, every step of it, the failing ones
\* included, leaves the archive and the checksum object byte for byte as they
\* were, so the entry is retrievable after the first call, during the second
\* and after it; and a restore_from_cache that returns true into a path that
\* did not exist leaves the tree that was stored, whichever call wrote last.
C16_StoreIsIdempotent ==
    [][\A p \in Procs :
          LET r == inv[p]
              q == inv'[p]
              a == KeyOf(r.tool, r.version, ArchiveFile)
              c == KeyOf(r.tool, r.version, ChecksumFile)
              m == KeyOf(r.tool, r.version, MetadataFile)
          IN /\ (Changed(p) /\ r.op = "store" /\ r.pc = "upload" /\ SameAsStored(r, fs))
                  => /\ Intact(s3', r.tool, r.version)
                     /\ s3'[a] = r.pre_s3[a] /\ s3'[c] = r.pre_s3[c]
                     /\ s3'[m].checksum = calculate_file_hash(s3'[a])
                     /\ Represents(s3'[a], fs'[r.install_path].tree)
             /\ (Changed(p) /\ r.op = "restore" /\ r.pc \notin {"idle", "done"}
                            /\ q.pc = "done" /\ q.result = "Ok(true)"
                            /\ Intact(s3, r.tool, r.version) /\ r.pre_s3 = s3
                            /\ ~r.pre_fs[r.install_path].exists)
                  => \A d \in Paths :
                        (fs[d].exists /\ Represents(s3[a], fs[d].tree))
                        => fs'[r.install_path].tree = fs[d].tree]_vars

\* a second store of the same tree returned Ok over the entry of the first
C16_Witness ==
    \E p \in Procs :
       /\ Done(p, "store") /\ inv[p].result = "Ok(())"
       /\ inv[p].uploaded = {"archive", "metadata", "checksum"}
       /\ SameAsStored(inv[p], fs)
       /\ Intact(s3, inv[p].tool, inv[p].version)
       /\ s3 = inv[p].pre_s3

\* No process but p has ever called store_in_cache: each of the others has
\* started at most one invocation and it is not a store.
OnlyWriter(p) ==
    \A q \in Procs \ {p} :
       inv[q].op # "store" /\ RaceBudget(q) - budget[q] <= 1

\* p's store_in_cache, p being the only process that stores, runs over the
\* entry an earlier store had left, with an install tree that is another one
\* and that nobody changed since the call began.
SecondStore(p) ==
    /\ inv[p].op = "store" /\ OnlyWriter(p)
    /\ Intact(inv[p].pre_s3, inv[p].tool, inv[p].version)
    /\ fs[inv[p].install_path] = inv[p].pre_fs[inv[p].install_path]
    /\ ~Represents(inv[p].pre_s3[KeyOf(inv[p].tool, inv[p].version, ArchiveFile)],
                   fs[inv[p].install_path].tree)

\* w, the only process that stores, has overwritten the archive of an earlier
\* store and returned Ok.
Overwrote(w) ==
    /\ Done(w, "store") /\ inv[w].result = "Ok(())" /\ OnlyWriter(w)
    /\ Intact(inv[w].pre_s3, inv[w].tool, inv[w].version)
    /\ s3[KeyOf(inv[w].tool, inv[w].version, ArchiveFile)]
          # inv[w].pre_s3[KeyOf(inv[w].tool, inv[w].version, ArchiveFile)]

\* C17: when a store_in_cache of a different install tree returns Ok over the
\* entry an earlier store left under the same key, with no other writer, the
\* entry then holds the archive of the second tree with its checksum and its
\* metadata and none of the three objects of the first call; a
\* restore_from_cache that then reads that archive and that checksum returns
\* true and leaves the second tree, not the first.
C17_KeyIsASlot ==
    [][\A p \in Procs :
          LET r == inv[p]
              q == inv'[p]
              a == KeyOf(r.tool, r.version, ArchiveFile)
              c == KeyOf(r.tool, r.version, ChecksumFile)
              m == KeyOf(r.tool, r.version, MetadataFile)
          IN /\ (Changed(p) /\ r.pc = "upload" /\ SecondStore(p)
                            /\ q.pc = "done" /\ q.result = "Ok(())")
                  => /\ Intact(s3', r.tool, r.version)
                     /\ Represents(s3'[a], fs[r.install_path].tree)
                     /\ s3'[m].checksum = calculate_file_hash(s3'[a])
                     /\ s3'[a] # r.pre_s3[a] /\ s3'[c] # r.pre_s3[c]
                     /\ s3'[m] # r.pre_s3[m]
             /\ (Changed(p) /\ r.op = "restore" /\ r.pc \notin {"idle", "done"}
                            /\ q.pc = "done"
                            /\ r.downloaded /\ r.temp_archive = s3[a]
                            /\ r.cks = "ok" /\ r.expected_checksum = s3[c]
                            /\ \E w \in Procs \ {p} : Overwrote(w))
                  => /\ q.result = "Ok(true)"
                     /\ Represents(s3[a], fs'[r.install_path].tree)
                     /\ \A w \in Procs \ {p} :
                           Overwrote(w)
                           => ~Represents(inv[w].pre_s3[a], fs'[r.install_path].tree)]_vars

\* p1 stored one tree and then another under the same key; the entry is the
\* second call's, and p2's restore afterwards returned true with the second tree
C17_Witness ==
    \E p, w \in Procs :
       /\ p # w /\ Overwrote(w) /\ SecondStore(w)
       /\ Done(p, "restore") /\ inv[p].result = "Ok(true)" /\ inv[p].pre_s3 = s3
       /\ inv[p].temp_archive = s3[KeyOf(inv[w].tool, inv[w].version, ArchiveFile)]
       /\ inv[p].cks = "ok"
       /\ fs[inv[p].install_path].tree = fs[inv[w].install_path].tree
       /\ Represents(s3[KeyOf(inv[w].tool, inv[w].version, ArchiveFile)],
                     fs[inv[p].install_path].tree)
       /\ inv[p].install_path # inv[w].install_path

\* p's restore_from_cache had the existence of the entry determined: its
\* arguments are valid and the metadata query was answered.
ExistenceDetermined(p) ==
    /\ inv[p].op = "restore" /\ ValidInput(inv[p].tool, inv[p].version)
    /\ inv[p].head \in {"200", "404"}

\* p's restore_from_cache began to unpack and did not unpack in full.
ExtractionFailed(p) ==
    /\ inv[p].op = "restore"
    /\ "unpack" \in inv[p].fx /\ "unpacked" \notin inv[p].fx

UnderToolsPrefix(k) == HasPrefix(k, Prefix \o <<"/","t","o","o","l","s">>)

\* When the cleanup began, the object was last written earlier than now minus
\* the given number of days (a time before the epoch when the days exceed it).
OlderThan(k, days) ==
    cleanup.pre_last_modified[k] < Now - days * 86400

\* The objects the cleanup was to delete.
Qualifying ==
    {k \in DOMAIN cleanup.pre_s3 :
        UnderToolsPrefix(k) /\ OlderThan(k, cleanup.days_old)}

\* The store holds what it held when the cleanup began, less the gone keys.
StoreIsLess(gone) ==
    /\ DOMAIN s3 = DOMAIN cleanup.pre_s3 \ gone
    /\ \A k \in DOMAIN s3 :
          s3[k] = cleanup.pre_s3[k] /\ last_modified[k] = cleanup.pre_last_modified[k]

\* The cleanup returned Ok and none of its deletes failed.
CleanupRanClean ==
    cleanup.pc = "done" /\ cleanup.result = "Ok" /\ cleanup.failed_keys = <<>>

\* C19, as claimed: a cleanup that returns Ok with no delete failing has
\* deleted exactly the objects under the tools prefix that were older than now
\* minus max_age, for whatever max_age it was given.
C19_Original == CleanupRanClean => StoreIsLess(Qualifying)

\* C19, amended: when max_age does not exceed the time since the epoch, a
\* cleanup that returns Ok with no delete failing has deleted exactly the
\* objects under the tools prefix last written before now minus max_age (an
\* object written exactly then stays) and has left every other object as it
\* was; with entries aged 1, 10 and 30 days and 7 days given, the 10- and
\* 30-day entries are gone and the 1-day entry is whole, check_cache on it
\* returns true whenever its query is answered, and restore_from_cache on it
\* never reports not_found or a checksum mismatch.  When max_age exceeds the
\* time since the epoch, cleanup panics and deletes nothing, or deletes every
\* object under the tools prefix.
C19_CleanupDeletesTheOld ==
    /\ (CleanupRanClean /\ cleanup.days_old * 86400 <= Now)
          => StoreIsLess(Qualifying)
    /\ (cleanup.pc = "done" /\ cleanup.days_old * 86400 > Now)
          => \/ cleanup.result = "panic" /\ StoreIsLess({})
             \/ /\ cleanup.result \in {"Ok", "Err"}
                /\ \E gone \in SUBSET {k \in DOMAIN cleanup.pre_s3 : UnderToolsPrefix(k)} :
                      StoreIsLess(gone)
                /\ CleanupRanClean
                      => StoreIsLess({k \in DOMAIN cleanup.pre_s3 : UnderToolsPrefix(k)})
    /\ (CleanupRanClean /\ cleanup.days_old = 7)
          => /\ ~Complete(s3, Go, V1) /\ ~Complete(s3, Node, V2)
             /\ \A f \in {ArchiveFile, MetadataFile, ChecksumFile} :
                   KeyOf(Go, V1, f) \notin DOMAIN s3 /\ KeyOf(Node, V2, f) \notin DOMAIN s3
    /\ (cleanup.pc = "done" /\ cleanup.days_old = 7)
          => /\ Intact(s3, Node, V1)
             /\ \A p \in Procs :
                   (inv[p].pc = "done" /\ inv[p].tool = Node /\ inv[p].version = V1)
                   => /\ (inv[p].op = "check" /\ inv[p].head \in {"200", "404"})
                            => inv[p].result = "Ok(true)"
                      /\ inv[p].op = "restore"
                            => /\ inv[p].status \notin {"not_found", "checksum_mismatch"}
                               /\ (inv[p].downloaded /\ "unpacked" \in inv[p].fx
                                                     /\ inv[p].err = "none")
                                     => inv[p].result = "Ok(true)"

\* cleanup_old_cache(7) removed the 10- and 30-day entries, and a restore of
\* the 1-day entry afterwards returned true
C19_Witness ==
    /\ CleanupRanClean /\ cleanup.days_old = 7
    /\ Qualifying # {} /\ StoreIsLess(Qualifying)
    /\ ~Complete(s3, Go, V1) /\ ~Complete(s3, Node, V2)
    /\ \E p \in Procs :
          /\ Done(p, "restore") /\ inv[p].tool = Node /\ inv[p].version = V1
          /\ inv[p].result = "Ok(true)"
          /\ Represents(s3[KeyOf(Node, V1, ArchiveFile)], fs[inv[p].install_path].tree)

\* the keys of a sequence of keys
KeysOf(seq) == {seq[i] : i \in 1..Len(seq)}

\* C20: in cleanup, the step in which a delete fails changes nothing in the
\* store, does not end the run and drops nothing from the page still to be
\* gone through; and when cleanup returns Ok, every object that was to be
\* deleted was attempted, the returned list holds, once each, exactly the keys
\* that are gone from the store, and every key whose delete failed is absent
\* from the list while its object is still there as it was.
C20_FailedDeleteIsSkipped ==
    [][/\ Len(cleanup'.failed_keys) > Len(cleanup.failed_keys)
            => /\ cleanup'.pc = "scan" /\ cleanup'.result = "none"
               /\ cleanup'.contents = Tail(cleanup.contents)
               /\ cleanup'.is_truncated = cleanup.is_truncated
               /\ cleanup'.continuation_token = cleanup.continuation_token
               /\ cleanup'.deleted_keys = cleanup.deleted_keys
               /\ s3' = s3
       /\ (cleanup.pc # "done" /\ cleanup'.pc = "done" /\ cleanup'.result = "Ok")
            => LET deleted == KeysOf(cleanup'.deleted_keys)
                   failed == KeysOf(cleanup'.failed_keys)
               IN /\ {k \in DOMAIN cleanup.pre_s3 :
                         /\ UnderToolsPrefix(k)
                         /\ cleanup.pre_last_modified[k]
                               < Now - cleanup.days_old * 86400}
                        \subseteq deleted \cup failed
                  /\ deleted = DOMAIN cleanup.pre_s3 \ DOMAIN s3'
                  /\ Cardinality(deleted) = Len(cleanup'.deleted_keys)
                  /\ deleted \cap failed = {}
                  /\ \A k \in failed :
                        k \in DOMAIN s3' /\ s3'[k] = cleanup.pre_s3[k]]_vars

\* cleanup returned Ok although a delete had failed, and it went on to delete
\* an object of a later page
C20_Witness ==
    /\ cleanup.pc = "done" /\ cleanup.result = "Ok"
    /\ cleanup.days_old * 86400 <= Now
    /\ \E i \in 1..Len(cleanup.failed_keys), j \in 1..Len(cleanup.deleted_keys) :
          /\ KeyBefore(cleanup.failed_keys[i], cleanup.deleted_keys[j])
          /\ cleanup.failed_keys[i] \in DOMAIN s3
          /\ cleanup.deleted_keys[j] \notin DOMAIN s3
          /\ Cardinality({k \in DOMAIN cleanup.pre_s3 :
                            UnderToolsPrefix(k)
                            /\ KeyBefore(k, cleanup.deleted_keys[j])}) >= PageSize

\* ------------------------------------------------------------------- C21
\* the update_stats calls of process p that have returned
Completed(p) ==
    StatsBudget(p) - budget[p] - (IF inv[p].pc \in {"idle", "done"} THEN 0 ELSE 1)

\* what a reader of the statistics file gets
Persisted == load_stats(stats_file)

\* Entries are never removed, so a file without an entry of the earlier run
\* is one that began absent or unreadable.
StartedEmpty ==
    DOMAIN Persisted.tools \subseteq {tool_key(req[1], req[2]) : req \in StatsRequests}

\* only p1 has called update_stats
OneAfterTheOther == inv["p2"].op = "idle" /\ budget["p2"] = StatsBudget("p2")

RECURSIVE SumHits(_, _)
SumHits(tools, keys) ==
    IF keys = {} THEN 0
    ELSE LET k == CHOOSE x \in keys : TRUE
         IN tools[k].cache_hits + SumHits(tools, keys \ {k})

RECURSIVE SumMisses(_, _)
SumMisses(tools, keys) ==
    IF keys = {} THEN 0
    ELSE LET k == CHOOSE x \in keys : TRUE
         IN tools[k].cache_misses + SumMisses(tools, keys \ {k})

\* the call of p that returned last was a miss for node@18.17.0 and the file
\* it found was the one a single hit for node@18.17.0 leaves
HitThenMiss(p) ==
    /\ inv[p].pc = "done" /\ Completed(p) = 2
    /\ inv[p].tool = Node /\ inv[p].version = V18 /\ ~inv[p].hit
    /\ inv[p].pre_stats.state = "ok"
    /\ inv[p].pre_stats.data.total_downloads = 1
    /\ inv[p].pre_stats.data.cache_hits = 1
    /\ DOMAIN inv[p].pre_stats.data.tools = {tool_key(Node, V18)}

\* C21: starting without a statistics file, after n update_stats calls made
\* one after the other the file holds total_downloads = n = cache_hits +
\* cache_misses, the global hits and misses are the sums of the per-tool hits
\* and misses, and a hit followed by a miss for node@18.17.0 leaves 1 / 1 / 2
\* with a tool entry of one hit and one miss.
C21_CountersAddUp ==
    (OneAfterTheOther /\ StartedEmpty) =>
        LET st == Persisted
            n == Completed("p1")
            k == tool_key(Node, V18)
        IN /\ st.total_downloads = n
           /\ n = st.cache_hits + st.cache_misses
           /\ st.cache_hits = SumHits(st.tools, DOMAIN st.tools)
           /\ st.cache_misses = SumMisses(st.tools, DOMAIN st.tools)
           /\ HitThenMiss("p1") =>
                 /\ st.cache_hits = 1 /\ st.cache_misses = 1
                 /\ st.total_downloads = 2
                 /\ st.tools[k].cache_hits = 1 /\ st.tools[k].cache_misses = 1

\* the scenario: nothing to read at first, then a hit and a miss for
\* node@18.17.0, both recorded
C21_Witness ==
    /\ OneAfterTheOther /\ StartedEmpty /\ HitThenMiss("p1")
    /\ stats_file.state = "ok"
    /\ stats_file.data.tools[tool_key(Node, V18)].cache_misses = 1

\* ------------------------------------------------------------------- C22
\* no global counter of the second aggregate is below that of the first
NotLower(before, after) ==
    /\ after.cache_hits >= before.cache_hits
    /\ after.cache_misses >= before.cache_misses
    /\ after.total_downloads >= before.total_downloads

\* process p writes the file, and what it writes is its update of the file as
\* it is now: nobody wrote between its load and its write
WritesOverWhatItRead(p) ==
    /\ inv[p].pc = "stats_save" /\ Changed(p)
    /\ inv[p].stats = update_stats(load_stats(stats_file), inv[p].tool,
                                   inv[p].version, inv[p].hit, inv[p].ms)

CountedBefore == IF StartedEmpty THEN 0 ELSE PriorStats.total_downloads

\* both processes have called update_stats
BothUpdated == inv["p1"].op # "idle" /\ inv["p2"].op # "idle"

\* C23: update_stats is an unlocked load, change and rewrite of the whole
\* aggregate, so with two processes the persisted total_downloads has grown by
\* at most the number of updates that have completed (and by fewer when one
\* write covered another).
C23_AtMostTheCompletedUpdates ==
    Persisted.total_downloads
        <= CountedBefore + Completed("p1") + Completed("p2")

\* both processes are through with their updates and the file counts fewer
\* lookups than were recorded: an update was overwritten
C23_Witness ==
    /\ BothUpdated /\ inv["p1"].pc = "done" /\ inv["p2"].pc = "done"
    /\ inv["p1"].result \in {"Ok(true)", "Ok(false)"}
    /\ inv["p2"].result \in {"Ok(true)", "Ok(false)"}
    /\ stats_file.state = "ok"
    /\ stats_file.data.total_downloads
          < CountedBefore + Completed("p1") + Completed("p2")

\* ------------------------------------------------------------------- C24
\* every entry that has a hit carries the floor of its total over its hits
Averaged(stats) ==
    \A k \in DOMAIN stats.tools :
        LET e == stats.tools[k]
        IN e.cache_hits > 0 =>
              /\ e.average_download_time_ms * e.cache_hits <= e.total_download_time_ms
              /\ e.total_download_time_ms < (e.average_download_time_ms + 1) * e.cache_hits

\* the entry of the tool and version of p's call in an aggregate, a new one
\* when there is none
EntryIn(stats, p) ==
    LET k == tool_key(inv[p].tool, inv[p].version)
    IN IF k \in DOMAIN stats.tools THEN stats.tools[k] ELSE NewToolStats

\* process p goes from load_stats to save_stats: the aggregate is changed
Updates(p) == inv[p].pc = "stats_load" /\ inv'[p].pc = "stats_save"

\* C24: after any sequence of update_stats calls every tool entry with
\* cache_hits > 0 has average_download_time_ms = floor(total_download_time_ms
\* / cache_hits); the divisor of a hit is never 0; a miss leaves the entry's
\* total_download_time_ms and average_download_time_ms as they were.
C24_AverageIsTotalOverHits ==
    [][/\ Averaged(load_stats(stats_file'))
       /\ \A p \in Procs :
             Updates(p) =>
                LET old == EntryIn(load_stats(stats_file), p)
                    new == EntryIn(inv'[p].stats, p)
                IN /\ Averaged(inv'[p].stats)
                   /\ inv[p].hit => new.cache_hits > 0
                   /\ ~inv[p].hit =>
                         /\ new.total_download_time_ms = old.total_download_time_ms
                         /\ new.average_download_time_ms = old.average_download_time_ms
                         /\ new.cache_hits = old.cache_hits]_vars

\* an entry with two hits of 0 ms and 1 ms and a miss after them: the average
\* is the floor, 0, and the miss has not touched it
C24_Witness ==
    /\ stats_file.state = "ok"
    /\ \E p \in Procs :
          /\ inv[p].pc = "done" /\ ~inv[p].hit
          /\ LET e == EntryIn(stats_file.data, p)
             IN /\ e.cache_hits = 2 /\ e.cache_misses >= 1
                /\ e.total_download_time_ms = 1
                /\ e.average_download_time_ms = 0
                /\ EntryIn(load_stats(inv[p].pre_stats), p).cache_hits = 2

\* ------------------------------------------------------------------- C25
\* the pieces of a key between its '/' characters
RECURSIVE Segments(_)
Segments(key) ==
    IF \A i \in 1..Len(key) : key[i] # "/" THEN <<key>>
    ELSE LET i == CHOOSE j \in 1..Len(key) :
                     key[j] = "/" /\ \A h \in 1..(j - 1) : key[h] # "/"
         IN <<SubSeq(key, 1, i - 1)>> \o Segments(SubSeq(key, i + 1, Len(key)))

\* inputs whose tool and version pass validation
ValidKeyInput(in) == ValidInput(in[1], in[2])

\* C25: for the fixed prefix get_cache_key is a function of (tool, version,
\* platform, arch) that is injective on valid inputs: the key reads
\* prefix/tools/tool/version/platform-arch, the same inputs give the same key,
\* distinct inputs give distinct keys, and distinct platform/arch pairs under
\* one tool and version give distinct keys.
C25_KeyIsInjective ==
    /\ \A k \in DOMAIN s3 : \A a \in s3[k] :
          ValidKeyInput(a) =>
             /\ Segments(k) = <<Prefix, <<"t","o","o","l","s">>, a[1], a[2],
                                a[3] \o <<"-">> \o a[4]>>
             /\ \A b \in s3[k] : ValidKeyInput(b) => b = a
    /\ \A k1, k2 \in DOMAIN s3 : \A a \in s3[k1] :
          a \in s3[k2] => k1 = k2

\* two builds for different architectures derived keys for the same valid tool
\* and version, and the keys differ
C25_Witness ==
    \E k1, k2 \in DOMAIN s3 : \E a \in s3[k1], b \in s3[k2] :
        /\ ValidKeyInput(a) /\ ValidKeyInput(b)
        /\ a[1] = b[1] /\ a[2] = b[2] /\ a[3] = b[3] /\ a[4] # b[4]
        /\ k1 # k2

\* ------------------------------------------------------------------- C26
\* the characters the claim allows in a tool name and in a version
NameAlphabet == Lower \cup Upper \cup Digit \cup {".", "_", "-"}
VersionAlphabet == Lower \cup Upper \cup Digit \cup {".", "+", "-"}

Within(text, lo, hi, alphabet) ==
    /\ lo <= Len(text) /\ Len(text) <= hi
    /\ \A i \in 1..Len(text) : text[i] \in alphabet

Holds(text, c) == \E i \in 1..Len(text) : text[i] = c

\* C26: is_valid_tool_name(s) is true exactly when s has 1 to 100 characters,
\* all in [A-Za-z0-9._-], and is_valid_version(s) exactly when s has 1 to 50
\* characters, all in [A-Za-z0-9.+-]: the empty string, a name of 101 and a
\* version of 51 characters and every string with '/', '@', '|' or a space
\* are refused, "terraform-1.5" and "1.5.0-beta.1" are accepted.
C26_ValidatorsAreExact ==
    LET r == inv["p1"]
        yes == r.result = "true"
    IN /\ r.op = "is_valid_tool_name" =>
             /\ yes <=> Within(r.tool, 1, 100, NameAlphabet)
             /\ (r.tool = <<>> \/ Len(r.tool) = 101) => ~yes
             /\ r.tool = Terraform15 => yes
       /\ r.op = "is_valid_version" =>
             /\ yes <=> Within(r.version, 1, 50, VersionAlphabet)
             /\ (r.version = <<>> \/ Len(r.version) = 51) => ~yes
             /\ r.version = Beta1 => yes
       /\ r.op \in {"is_valid_tool_name", "is_valid_version"} =>
             \A c \in {"/", "@", "|", " "} :
                 (Holds(r.tool, c) \/ Holds(r.version, c)) => ~yes

\* a name of exactly 100 allowed characters was accepted
C26_Witness ==
    /\ inv["p1"].op = "is_valid_tool_name" /\ inv["p1"].result = "true"
    /\ Len(inv["p1"].tool) = 100

\* ------------------------------------------------------------------- C27
\* the declared tools the store had no metadata for when the warming began
NotYetCached ==
    {warm.tools[n] : n \in {m \in 1..Len(warm.tools) :
        metadata_key(warm.tools[m][1], warm.tools[m][2]) \notin DOMAIN warm.pre_s3}}

\* the tools install_tool was called for
Attempted == {warm.attempted[n] : n \in 1..Len(warm.attempted)}

\* the failures that were logged as warnings
Warned == {warm.warned[n] : n \in 1..Len(warm.warned)}

\* warm_project_cache has returned for a project that declares tools
Warmed == warm.pc = "done" /\ warm.tools # <<>>

\* C27 as claimed: whatever failed for a tool, the warming of a project returns
\* Ok with every declared tool that was not cached processed
C27_Original ==
    Warmed => warm.result = "Ok" /\ NotYetCached \subseteq Attempted

\* C27: in warm_project_cache a failure of the installer or of the store for
\* one tool is logged and the remaining tools are still processed, with Ok
\* returned; a failure of an existence check ends the warming with an error
\* before anything is installed.
C27_InstallFailuresDoNotAbort ==
    /\ Warmed =>
          /\ warm.result = "Ok" <=> warm.i > Len(warm.tools)
          /\ warm.result = "Ok" => Attempted = NotYetCached
          /\ warm.result = "Err" => Attempted = {} /\ s3 = warm.pre_s3
    /\ warm.pc \in {"install", "store"} =>
          /\ warm.i > Len(warm.tools)
          /\ Attempted \cup {warm.missing_tools[n] : n \in 1..Len(warm.missing_tools)}
                = NotYetCached

\* the installer failed for the first missing tool, the store failed for the
\* second, both were logged and Ok was returned
C27_Witness ==
    /\ Warmed /\ warm.result = "Ok"
    /\ Len(warm.attempted) = 2 /\ Len(warm.warned) = 2
    /\ warm.warned[1][2] \in {"spawn", "exit"}
    /\ warm.warned[2][2] = "store"

\* ------------------------------------------------------------------- C28
\* the process ran in hook mode and has terminated
HookExited == proc.exited /\ proc.hook_mode

\* the operation of the command told the process that the tool is not to be
\* had from the cache
CacheMiss ==
    /\ proc.command \in {"check", "restore"}
    /\ inv["p1"].op = proc.command /\ inv["p1"].pc = "done"
    /\ inv["p1"].result = "Ok(false)"

\* the configuration did not load, the client could not be built, or the
\* operation returned an error
RecoverableFailure ==
    \/ proc.failure \in {"config", "client"}
    \/ proc.command \in Ops /\ inv["p1"].pc = "done" /\ inv["p1"].result = "Err"
    \/ proc.command = "warm" /\ warm.pc = "done" /\ warm.result = "Err"

\* C28 as claimed: in hook mode neither a cache miss nor a recoverable failure
\* ends the process with a failure status
C28_Original ==
    (HookExited /\ (CacheMiss \/ RecoverableFailure)) => proc.exit_code = 0

\* C28: in hook mode a recoverable failure (configuration load error, client
\* construction error, any Err from check, restore, store or warm) never ends
\* the process with a failure status; a cache miss reported by check or
\* restore ends it with status 1, and nothing else does.
C28_HookModeFailuresExitZero ==
    HookExited =>
        /\ RecoverableFailure => proc.exit_code = 0
        /\ proc.exit_code = 1 <=> CacheMiss
        /\ proc.exit_code \in {0, 1}

\* in hook mode a restore returned an error and the process ended with
\* status 0
C28_Witness ==
    /\ HookExited /\ proc.command = "restore"
    /\ inv["p1"].pc = "done" /\ inv["p1"].result = "Err"
    /\ proc.failure = "command" /\ proc.exit_code = 0

\* ------------------------------------------------------------------- C29
\* the one file a process started with --config looks at
GivenFile == fs[proc.config_path]

\* the content is a complete Config in the structured format
Structured(content) ==
    /\ \A n \in 1..Len(content) : content[n].form = "toml"
    /\ RequiredFields \subseteq {content[n].key : n \in 1..Len(content)}

\* the content has a KEY=value line for the key
HasSetting(content, key) ==
    \E n \in 1..Len(content) : content[n].form = "shell" /\ content[n].key = key

\* the value of the last KEY=value line for the key
SettingOf(content, key) ==
    LET n == CHOOSE m \in 1..Len(content) :
                /\ content[m].form = "shell" /\ content[m].key = key
                /\ \A h \in (m + 1)..Len(content) :
                      ~(content[h].form = "shell" /\ content[h].key = key)
    IN content[n].value

\* the file given with --config has the .toml extension, is there, and does
\* not parse as the structured format
UnparsedToml ==
    /\ proc.config_path \in {"custom.toml"} /\ GivenFile.exists
    /\ ~Structured(GivenFile.content)

SettingNames ==
    {"enabled", "bucket", "region", "prefix", "ttl_seconds", "parallel_uploads",
     "compression", "debug"}
LegacyKey(setting) ==
    CASE setting = "enabled" -> "S3_CACHE_ENABLED"
      [] setting = "bucket" -> "S3_CACHE_BUCKET"
      [] setting = "region" -> "S3_CACHE_REGION"
      [] setting = "prefix" -> "S3_CACHE_PREFIX"
      [] setting = "ttl_seconds" -> "S3_CACHE_TTL"
      [] setting = "parallel_uploads" -> "S3_CACHE_PARALLEL_UPLOADS"
      [] setting = "debug" -> "S3_CACHE_DEBUG"
      [] OTHER -> "-"
EnvName(setting) == "MISE_" \o LegacyKey(setting)

\* the typed value the text of an environment variable stands for, where it
\* stands for one
ValueOf(setting, text) ==
    CASE setting \in {"enabled", "debug"} ->
            [ok |-> TRUE, value |-> text \in {"true", "TRUE", "True"}]
      [] setting \in {"ttl_seconds", "parallel_uploads"} /\ text = "3600" ->
            [ok |-> TRUE, value |-> 3600]
      [] setting \in {"ttl_seconds", "parallel_uploads"} /\ text = "1800" ->
            [ok |-> TRUE, value |-> 1800]
      [] setting \in {"ttl_seconds", "parallel_uploads"} /\ text = "5" ->
            [ok |-> TRUE, value |-> 5]
      [] setting \in {"ttl_seconds", "parallel_uploads"} -> [ok |-> FALSE, value |-> 0]
      [] OTHER -> [ok |-> TRUE, value |-> text]

\* the environment gives the setting a value
InEnvironment(setting) ==
    /\ EnvName(setting) \in DOMAIN proc.env
    /\ ValueOf(setting, proc.env[EnvName(setting)]).ok

\* a file that Config::load looks at has a line for the setting
InSomeFile(setting) ==
    \E n \in 1..Len(config_paths(proc.config_path)) :
        LET file == fs[config_paths(proc.config_path)[n]]
        IN /\ file.exists
           /\ \E m \in 1..Len(file.content) :
                 file.content[m].key \in {setting, LegacyKey(setting)}

\* the default of each setting as the claim lists it
ClaimedDefault(setting) ==
    CASE setting = "region" -> "us-east-1"
      [] setting = "prefix" -> "mise-cache"
      [] setting = "ttl_seconds" -> 604800
      [] setting = "parallel_uploads" -> 3
      [] setting = "compression" -> "gzip"
      [] setting = "enabled" -> TRUE
      [] setting = "bucket" -> ""
      [] OTHER -> FALSE

\* C30: Config::load applies the defaults, then the configuration files, then
\* the environment: a setting the environment gives has the environment's
\* value whatever the files say, a setting of a file the environment does not
\* give has the file's value, and a setting in neither has its default
\* (region us-east-1, prefix mise-cache, ttl 604800, parallel_uploads 3,
\* compression gzip, enabled true).
C30_EnvironmentOverFilesOverDefaults ==
    proc.pc \in {"env", "loaded", "failed"} =>
        \A setting \in SettingNames :
            /\ InEnvironment(setting) =>
                  config[setting] = ValueOf(setting, proc.env[EnvName(setting)]).value
            /\ (~InEnvironment(setting) /\ ~InSomeFile(setting)) =>
                  config[setting] = ClaimedDefault(setting)
            /\ (/\ ~InEnvironment(setting) /\ EnvName(setting) \notin DOMAIN proc.env
                /\ proc.config_path = "custom.conf"
                /\ HasSetting(GivenFile.content, LegacyKey(setting))) =>
                  config[setting] =
                     ValueOf(setting, SettingOf(GivenFile.content, LegacyKey(setting))).value
            /\ (/\ ~InEnvironment(setting) /\ proc.config_path = "custom.toml"
                /\ GivenFile.content = FullToml /\ setting \notin {"enabled"}) =>
                  config[setting] =
                     (CHOOSE l \in {FullToml[n] : n \in 1..Len(FullToml)} :
                         l.key = setting).value

\* a complete TOML file and a full environment: the region and the ttl are
\* the environment's, the compression, which the environment cannot give, is
\* the file's
C30_Witness ==
    /\ proc.pc = "loaded" /\ proc.config_path = "custom.toml"
    /\ GivenFile.content = FullToml
    /\ InEnvironment("region") /\ InEnvironment("ttl_seconds")
    /\ config.region = "us-west-2" /\ config.ttl_seconds = 3600
    /\ config.compression = "zstd" /\ config.bucket = "env-bucket"

\* ------------------------------------------------------------------- C31
\* a name formatted as an IP address: digits around exactly three periods
LooksLikeAnAddress(s) ==
    \E i, j, k \in 1..Len(s) :
        /\ 1 < i /\ i + 1 < j /\ j + 1 < k /\ k < Len(s)
        /\ \A n \in 1..Len(s) : IF n \in {i, j, k} THEN s[n] = "." ELSE s[n] \in Digit

\* a valid bucket name, in the words of the rule
BucketNameOk(s) ==
    /\ Len(s) \in 3..63
    /\ \A n \in 1..Len(s) : s[n] \in Lower \cup Digit \cup {".", "-"}
    /\ {s[1], s[Len(s)]} \subseteq Lower \cup Digit
    /\ \A n \in 1..(Len(s) - 1) :
          <<s[n], s[n + 1]>> \notin {<<".", ".">>, <<".", "-">>, <<"-", ".">>}
    /\ ~LooksLikeAnAddress(s)

PrefixOk(s) ==
    /\ s = <<>> \/ s[1] # "/"
    /\ ~\E n \in 1..(Len(s) - 1) : s[n] = "/" /\ s[n + 1] = "/"

LoadReturned == proc.pc \in {"loaded", "failed"}
NoStoreIO == inv["p1"].calls = <<>> /\ s3 = [k \in {} |-> 0]

\* C31: Config::load fails whenever the resulting bucket name is empty or is
\* not a valid bucket name, and succeeds for a valid bucket name with a region
\* that is not empty and a prefix that neither starts with '/' nor contains
\* "//"; a failed load is followed by no call to the store.
C31_LoadValidatesBeforeStoreIO ==
    /\ LoadReturned =>
          /\ ~BucketNameOk(chars(config.bucket)) => proc.pc = "failed"
          /\ (/\ BucketNameOk(chars(config.bucket))
              /\ config.region # ""
              /\ PrefixOk(chars(config.prefix))) => proc.pc = "loaded"
    /\ proc.pc = "failed" => NoStoreIO
    /\ inv["p1"].calls # <<>> => proc.pc = "loaded"

\* the environment named the bucket 192.168.1.1 with a region and a prefix
\* that pass, and the load failed
C31_Witness ==
    /\ proc.pc = "failed"
    /\ config.bucket = "192.168.1.1" /\ config.region # ""
    /\ PrefixOk(chars(config.prefix))
    /\ NoStoreIO

\* ------------------------------------------------------------------- C32
\* how often an invocation has issued a call
Issued(p, verb, key) ==
    Cardinality({n \in 1..Len(inv[p].calls) : inv[p].calls[n] = <<verb, key>>})

\* the calls an operation may issue for its tool and version
MayIssue(p) ==
    LET t == inv[p].tool
        v == inv[p].version
    IN CASE inv[p].op = "check" -> {<<"HEAD", KeyOf(t, v, MetadataFile)>>}
         [] inv[p].op = "restore" ->
              {<<"HEAD", KeyOf(t, v, MetadataFile)>>, <<"GET", KeyOf(t, v, ArchiveFile)>>,
               <<"GET", KeyOf(t, v, ChecksumFile)>>}
         [] inv[p].op = "store" ->
              {<<"PUT", KeyOf(t, v, f)>> : f \in {ArchiveFile, MetadataFile, ChecksumFile}}
         [] OTHER -> {}

\* C32: within one invocation check_cache issues at most one existence query,
\* restore_from_cache at most one existence query, one archive download and one
\* checksum download, and store_in_cache at most one upload per object; no
\* other call is issued and none is issued a second time, whatever the first
\* returned.
C32_NoCallIsRetried ==
    \A p \in Procs :
        /\ \A n \in 1..Len(inv[p].calls) : inv[p].calls[n] \in MayIssue(p)
        /\ \A c \in MayIssue(p) : Issued(p, c[1], c[2]) <= 1

\* a restore whose archive download failed returned after the one attempt
C32_Witness ==
    /\ Done("p1", "restore") /\ inv["p1"].status = "download_failed"
    /\ inv["p1"].head = "200"
    /\ Issued("p1", "GET", KeyOf(inv["p1"].tool, inv["p1"].version, ArchiveFile)) = 1

\* ------------------------------------------------------------------- C33
\* the first page that is not marked truncated
LastPageRead(pages) ==
    CHOOSE k \in 1..Len(pages) :
        /\ pages[k].is_truncated # "Some(true)"
        /\ \A j \in 1..(k - 1) : pages[j].is_truncated = "Some(true)"

\* the keys of a page in its order
KeysOfPage(page) ==
    IF page.has_contents THEN SelectSeq(page.contents, LAMBDA o : o # NoKey) ELSE <<>>

\* the keys of the first k pages, page after page
RECURSIVE KeysThrough(_, _)
KeysThrough(pages, k) ==
    IF k = 0 THEN <<>> ELSE KeysThrough(pages, k - 1) \o KeysOfPage(pages[k])

\* C33: list_objects terminates for every finite sequence of pages, and when
\* no request failed it has asked for each page up to the first that is not
\* marked truncated once and returns the keys of those pages, each once, in
\* page order.
C33_ListFollowsPagination ==
    /\ [](list.pc = "done" /\ list.result = "Ok" =>
            /\ list.requests = LastPageRead(list.pages)
            /\ list.keys = KeysThrough(list.pages, LastPageRead(list.pages)))
    /\ [](list.requests <= Len(list.pages))
    /\ <>(list.pc = "done")

\* three pages, the first two truncated, with keys on each, were listed
C33_Witness ==
    /\ list.pc = "done" /\ list.result = "Ok"
    /\ Len(list.pages) = 3 /\ list.requests = 3
    /\ \A k \in 1..3 : KeysOfPage(list.pages[k]) # <<>>
    /\ Len(list.keys) >= 3

\* ------------------------------------------------------------------- C34
\* the objects that were there when the cleanup began and are not any more
Gone == DOMAIN cleanup.pre_s3 \ DOMAIN s3

\* max_age_seconds as cleanup_old_cache passes it
MaxAgeGiven == cleanup.days_old * 86400

\* last written strictly before now minus max_age, in the integers
StrictlyOlder(k) == cleanup.pre_last_modified[k] < Now - MaxAgeGiven

CleanupBegun == cleanup.pc # "idle"

\* C34, as claimed: for every max_age_seconds that cleanup_old_cache can pass,
\* an object is deleted only if its last-modified time is strictly earlier than
\* now minus max_age_seconds; when max_age_seconds exceeds the current Unix
\* time no object is deleted and the subtraction neither wraps nor panics.
C34_Original ==
    CleanupBegun =>
        /\ \A k \in Gone : StrictlyOlder(k)
        /\ cleanup.result # "panic"
        /\ MaxAgeGiven > Now => Gone = {} /\ cleanup.cutoff_time <= Now

\* C34, amended: when max_age_seconds does not exceed the current Unix time,
\* an object is deleted only if its last-modified time is strictly earlier than
\* now minus max_age_seconds, and the run does not panic; when it exceeds the
\* current Unix time the run either panics before any request, or goes on with
\* a cutoff beyond every timestamp and deletes objects of any age under the
\* tools prefix.
C34_DeletesOnlyTheStrictlyOlder ==
    CleanupBegun =>
        /\ MaxAgeGiven <= Now =>
              /\ \A k \in Gone : StrictlyOlder(k)
              /\ cleanup.result # "panic"
              /\ cleanup.cutoff_time = Now - MaxAgeGiven
        /\ MaxAgeGiven > Now =>
              \/ cleanup.result = "panic" /\ Gone = {}
              \/ /\ cleanup.result # "panic"
                 /\ cleanup.cutoff_time > Now
                 /\ \A k \in Gone : UnderToolsPrefix(k)

\* cleanup_old_cache(10) ended: the entry written 30 days ago is gone, the
\* entry written exactly 10 days ago is whole
C34_Witness ==
    /\ cleanup.pc = "done" /\ cleanup.result = "Ok" /\ cleanup.days_old = 10
    /\ \A f \in {ArchiveFile, MetadataFile, ChecksumFile} :
          /\ KeyOf(Node, V2, f) \in Gone
          /\ KeyOf(Go, V1, f) \in DOMAIN s3
          /\ cleanup.pre_last_modified[KeyOf(Go, V1, f)] = Now - MaxAgeGiven

\* ------------------------------------------------------------------- C35
\* the objects the entry of a tool and version had when the cleanup began
ObjectsBefore(t, v) ==
    {KeyOf(t, v, f) : f \in {ArchiveFile, MetadataFile, ChecksumFile}}
        \cap DOMAIN cleanup.pre_s3

WholeOrGone(t, v) ==
    \/ ObjectsBefore(t, v) \subseteq DOMAIN s3
    \/ ObjectsBefore(t, v) \cap DOMAIN s3 = {}

\* metadata without archive, or archive without metadata
HalfAnEntry(t, v) ==
    (KeyOf(t, v, MetadataFile) \in DOMAIN s3) # (KeyOf(t, v, ArchiveFile) \in DOMAIN s3)

Entries == {<<Node, V1>>, <<Go, V1>>, <<Node, V2>>}

CleanupCompleted == cleanup.pc = "done" /\ cleanup.result = "Ok"

ReturnedFalse(p) == Done(p, "restore") /\ inv[p].result = "Ok(false)"

\* the install path of the invocation is as it was when the call was made
InstallPathAsBefore(p) ==
    fs[inv[p].install_path] = inv[p].pre_fs[inv[p].install_path]

\* the files of the archive the invocation downloaded
ArchiveWrites(p, f) ==
    {inv[p].temp_archive.entries[i][2] :
        i \in {j \in 1..Len(inv[p].temp_archive.entries) :
                  inv[p].temp_archive.entries[j][1] = f}}

\* the install path exists and holds what it held, with some files of the
\* archive written into it
PartlyPopulated(p) ==
    LET now == fs[inv[p].install_path]
        before == inv[p].pre_fs[inv[p].install_path]
    IN /\ now.exists
       /\ DOMAIN before.tree \subseteq DOMAIN now.tree
       /\ \A f \in DOMAIN now.tree :
             \/ f \in DOMAIN before.tree /\ now.tree[f] = before.tree[f]
             \/ now.tree[f] \in ArchiveWrites(p, f)

\* C36, as claimed: whenever restore_from_cache returns false (not_found,
\* download_failed, checksum_mismatch or extraction_failed) the install path is
\* exactly as it was before the call, neither created nor partially populated.
C36_Original == \A p \in Procs : ReturnedFalse(p) => InstallPathAsBefore(p)

\* C36, amended: when restore_from_cache returns false with not_found,
\* download_failed or checksum_mismatch, the install path and every other
\* local path are exactly as they were before the call.  When it returns false
\* with extraction_failed, the install path has been created and holds what it
\* held before with those files of the archive written into it that were
\* unpacked before the failure; nothing is rolled back.
C36_FalseLeavesPathExceptAfterExtraction ==
    \A p \in Procs :
        ReturnedFalse(p) =>
            /\ inv[p].status \in {"not_found", "download_failed", "checksum_mismatch",
                                  "extraction_failed"}
            /\ inv[p].status # "extraction_failed" => fs = inv[p].pre_fs
            /\ inv[p].status = "extraction_failed" =>
                  /\ PartlyPopulated(p)
                  /\ \A q \in DOMAIN fs \ {inv[p].install_path} : fs[q] = inv[p].pre_fs[q]

\* a restore into a path that did not exist returned false after a failed
\* extraction, and the path now exists with a file of the archive in it
C36_Witness ==
    /\ ReturnedFalse("p1") /\ inv["p1"].status = "extraction_failed"
    /\ ~inv["p1"].pre_fs[inv["p1"].install_path].exists
    /\ fs[inv["p1"].install_path].exists
    /\ DOMAIN fs[inv["p1"].install_path].tree # {}
    /\ ~InstallPathAsBefore("p1")

\* ------------------------------------------------------------------- C37
\* the value the file writes for a field
Written(content, field) ==
    (CHOOSE line \in {content[n] : n \in 1..Len(content)} :
        line.form = "toml" /\ line.key = field).value

\* Config::load returned a Config for a TOML file, given with --config, that
\* sets every field, in an environment that sets nothing
LoadedFromFullToml ==
    /\ proc.pc = "loaded"
    /\ proc.config_path = "custom.toml" /\ GivenFile.exists
    /\ Structured(GivenFile.content)
    /\ DOMAIN proc.env = {}

\* C37, as claimed: every field of the loaded Config (enabled, bucket, region,
\* prefix, ttl_seconds, parallel_uploads, compression, debug) equals the value
\* written in the file; a file with enabled = false yields a disabled cache.
C37_Original ==
    LoadedFromFullToml =>
        \A field \in SettingNames : config[field] = Written(GivenFile.content, field)

\* C37, amended: bucket, region, prefix, ttl_seconds, parallel_uploads,
\* compression and debug of the loaded Config equal the values written in the
\* file; enabled is not taken from the file and keeps its default, true, so a
\* file with enabled = false yields an enabled cache.
C37_TomlFieldsExceptEnabled ==
    LoadedFromFullToml =>
        /\ \A field \in SettingNames \ {"enabled"} :
              config[field] = Written(GivenFile.content, field)
        /\ config.enabled = TRUE

\* the file says enabled = false, debug = true and compression = "zstd";
\* the loaded Config has the debug and compression of the file and is enabled
C37_Witness ==
    /\ LoadedFromFullToml
    /\ Written(GivenFile.content, "enabled") = FALSE
    /\ config.enabled /\ config.debug /\ config.compression = "zstd"
    /\ config.ttl_seconds = 7200

\* ------------------------------------------------------------------- C38
\* the tools for which restore_from_cache returned the result
ReturnedFor(results) ==
    {n \in 1..Len(proc.returned) : proc.returned[n][2] \in results}

RestoreAllEnded == proc.pc = "done" /\ proc.result = "Ok" /\ proc.tools # <<>>

\* C38, as claimed: the reported number of restored tools equals the number of
\* declared tools for which restore_from_cache returned true; a tool whose
\* restore returned false or an error is not counted and not reported as
\* restored.
C38_Original ==
    RestoreAllEnded =>
        /\ proc.restored_count = Cardinality(ReturnedFor({"Ok(true)"}))
        /\ \A n \in 1..Len(proc.printed) :
              \E m \in ReturnedFor({"Ok(true)"}) : proc.returned[m][1] = proc.printed[n]

\* C38, amended: the reported number of restored tools equals the number of
\* declared tools for which restore_from_cache returned without an error,
\* true or false; a tool whose restore returned false is counted and reported
\* as restored, a tool whose restore returned an error is not.  Outside hook
\* mode the number printed is that count and the tools printed are those
\* tools in their order.
C38_CountsEveryReturnWithoutError ==
    RestoreAllEnded =>
        /\ proc.restored_count = Cardinality(ReturnedFor({"Ok(true)", "Ok(false)"}))
        /\ ~proc.hook_mode =>
              /\ proc.printed_count = proc.restored_count
              /\ proc.printed =
                    [n \in 1..Len(SelectSeq(proc.returned, LAMBDA r : r[2] # "Err")) |->
                        SelectSeq(proc.returned, LAMBDA r : r[2] # "Err")[n][1]]
        /\ proc.hook_mode => proc.printed = <<>> /\ proc.printed_count = -1

\* of two declared tools one was restored, the restore of the other returned
\* false because it is not in the store, and "Restored 2 tools" was printed
C38_Witness ==
    /\ RestoreAllEnded /\ ~proc.hook_mode /\ ~proc.selective
    /\ Cardinality(ReturnedFor({"Ok(true)"})) = 1
    /\ Cardinality(ReturnedFor({"Ok(false)"})) = 1
    /\ proc.printed_count = 2

\* ------------------------------------------------------------------- C39
\* older than the configured ttl_seconds
Expired(k) == Now - last_modified[k] > config.ttl_seconds

\* C39: whatever ttl_seconds is configured, the operations give the results
\* and the effects that their arguments and the store determine: check_cache
\* answers by the existence of the metadata object, restore_from_cache
\* restores an entry of any age as a hit, store_in_cache writes the entry of
\* the install tree, and the cutoff of cleanup_old_cache is now minus the days
\* given, so that the objects it deletes are those older than that.
C39_TtlHasNoInfluence ==
    /\ \A p \in Procs :
          /\ (Done(p, "check") /\ inv[p].head \in {"200", "404"}) =>
                inv[p].result =
                    (IF KeyOf(Node, V1, MetadataFile) \in DOMAIN inv[p].pre_s3
                     THEN "Ok(true)" ELSE "Ok(false)")
          /\ (Done(p, "restore") /\ Intact(inv[p].pre_s3, Node, V1)) =>
                /\ inv[p].status \notin {"not_found", "checksum_mismatch"}
                /\ (inv[p].downloaded /\ "unpacked" \in inv[p].fx /\ inv[p].err = "none")
                      => inv[p].result = "Ok(true)"
          /\ (Done(p, "store") /\ inv[p].result = "Ok(())") =>
                /\ inv[p].uploaded = {"archive", "metadata", "checksum"}
                /\ Represents(inv[p].staged.archive, TreeA)
    /\ (CleanupBegun /\ MaxAgeGiven <= Now) =>
          /\ cleanup.cutoff_time = Now - MaxAgeGiven
          /\ \A k \in Gone : StrictlyOlder(k) /\ UnderToolsPrefix(k)
    /\ (CleanupRanClean /\ MaxAgeGiven <= Now) =>
          \A k \in Qualifying : k \in Gone \/ last_modified[k] # cleanup.pre_last_modified[k]

\* with ttl_seconds of an hour, cleanup_old_cache(7) left the entry written a
\* day ago, and restore_from_cache then restored it as a hit
C39_Witness ==
    /\ config.ttl_seconds = 3600
    /\ CleanupRanClean /\ cleanup.days_old = 7
    /\ Expired(KeyOf(Node, V1, ArchiveFile))
    /\ Done("p1", "restore") /\ inv["p1"].result = "Ok(true)" /\ inv["p1"].hit
    /\ inv["p1"].pre_s3 = s3 /\ Gone # {}

\* ------------------------------------------------------------------- C40
\* retry_with_backoff has returned
RetryReturned == retry.pc = "done"

\* retry_with_backoff has panicked
RetryPanicked == retry.pc = "panicked"

\* the first call of the operation that succeeds, 0 when none does
FirstSuccess ==
    IF \E k \in 1..retry.max_attempts : retry.outcomes[k] = "Ok"
    THEN CHOOSE k \in 1..retry.max_attempts :
            /\ retry.outcomes[k] = "Ok"
            /\ \A j \in 1..(k - 1) : retry.outcomes[j] = "Err"
    ELSE 0

\* initial_delay_ms * 2^(k-1)
BackoffDelay(k) == [m |-> retry.initial_delay_ms.m, e |-> retry.initial_delay_ms.e + (k - 1)]

\* every delay slept so far is the initial one doubled once per earlier retry
DelaysDouble == \A k \in 1..Len(retry.slept) : retry.slept[k] = BackoffDelay(k)

\* what the claim says of a run, whether under way or ended
RetryAsClaimed ==
    /\ ~RetryPanicked
    /\ retry.calls <= retry.max_attempts
    /\ DelaysDouble
    /\ RetryReturned =>
          IF FirstSuccess # 0
          THEN retry.result = <<"Ok", FirstSuccess>> /\ retry.calls = FirstSuccess
          ELSE retry.result = <<"Err", retry.max_attempts>>

\* the number of milliseconds is below 2^64 (for m below 2^30)
BelowTwoTo64(d) ==
    d.m = 0 \/ (d.e < 64 /\ (d.e <= 34 \/ d.m < 2 ^ (64 - d.e)))

\* after each sleep so far, twice the delay slept for is still a u64
DoublingsFit ==
    \A k \in 1..Len(retry.slept) : BelowTwoTo64(BackoffDelay(k + 1))

\* C40, as claimed: for every max_attempts >= 0 and every initial delay the
\* call ends by returning, after at most max_attempts calls of the operation,
\* the first success or else the error of the last attempt, with no panic and
\* with the k-th retry delayed by initial_delay_ms * 2^(k-1).
C40_Original == [](RetryAsClaimed) /\ <>(RetryReturned)

\* C40, amended: with max_attempts >= 1, and as long as twice the delay of
\* each sleep is below 2^64, the call ends by returning, after at most
\* max_attempts calls of the operation, the first success or else the error of
\* the last attempt, with no panic and with the k-th retry delayed by
\* initial_delay_ms * 2^(k-1).
C40_ReturnsWhenAttemptsAndDelaysAllow ==
    /\ []((retry.max_attempts >= 1 /\ DoublingsFit) => RetryAsClaimed)
    /\ <>((retry.max_attempts >= 1 /\ DoublingsFit) => RetryReturned)

\* three attempts were made, two retries were slept for with 100 ms and
\* 200 ms, and the third call's error was returned
C40_Witness ==
    /\ RetryReturned /\ retry.max_attempts = 3 /\ retry.calls = 3
    /\ retry.result = <<"Err", 3>>
    /\ retry.slept = <<[m |-> 100, e |-> 0], [m |-> 100, e |-> 1]>>

====
